---- MODULE Spec2Model ----
(***************************************************************************)
(* Model of the gallery server (src/server.py): the metadata cache, the    *)
(* de-duplicating image scan, the content-address key builder, the         *)
(* derivative (thumbnail / display) cache with its request handlers, and   *)
(* the prebuild pass.  Each part has its own specification over the shared *)
(* variables; the variables of the other parts stay at rest.               *)
(***************************************************************************)
EXTENDS Integers, Sequences, FiniteSets, TLC

VARIABLES
    \* ---- metadata cache (MetaCache, api_images miss path) ----
    mc,        \* MetaCache._data: resolved path -> MetaCacheItem or NoItem
    ttl,       \* MetaCache.ttl
    fsys,      \* the source files: path -> [exists, mtime]
    now,       \* time.time()
    pc,        \* each request thread's position in the api_images loop body
    arg,       \* the path the thread is looking up (p_str)
    meta,      \* the thread's local `meta` (what get returned, then what was extracted)
    smt,       \* the mtime MetaCache.set read before taking the lock
    envLeft,   \* how many more changes the environment makes to the files
    \* ---- image scan (scan_images) ----
    root,      \* the root handed to scan_images (IMAGES_DIR, resolved)
    tree,      \* the directory entries below the root
    stack,     \* os.walk: the directories still to visit, next first
    todo,      \* os.walk: the file names of the current directory not yet visited
    files,     \* scan_images: files
    seen,      \* scan_images: seen
    seenInode, \* scan_images: seen_inode
    sphase,    \* "walk" while scan_images walks, "done" once it has returned
    \* ---- content-address keys (sha_for, thumb_cache_path, display_cache_path) ----
    keyIn,     \* two requests for a cache path: source stat and variant
    keyOut,    \* the cache path computed for each, NoPath before
    \* ---- derivative cache (make_thumbnail, make_display, /thumb, /display) ----
    avif,      \* AVIF_ENABLED
    srcs,      \* the source images: path -> [exists, mtimeNs, size, img, long]
    art,       \* the files of the derivative cache: cache path -> [complete, enc]
    dirs,      \* the cache directories created by dst.parent.mkdir
    dpc,       \* each thread's position in its handler or make_* call
    loc,       \* each thread's locals: kind, src, param, fmt, dst, mime, created
    req,       \* the request a handler thread is answering
    resp,      \* the response of the handler: status, file sent, mime type
    eff,       \* what the thread's current request did: mkdir, open, write
    wbegun,    \* cache path -> number of im.save calls that opened it for writing
    wdone,     \* cache path -> number of im.save calls that completed
    returned,  \* the make_* calls that have returned a path
    reqLeft,   \* how many more requests arrive
    srcLeft,   \* how many more times a source is rewritten or a cache file removed
    \* ---- prebuild_all ----
    images,    \* the inventory passed to prebuild_all
    buildAvif, \* its build_avif argument
    cpus,      \* os.cpu_count()
    fut,       \* the futures of ex.map(work, images): state and result of each
    wk,        \* each pool worker's call of work: index of the image, calls left, made
    ppos,      \* the index of the result the loop of prebuild_all waits for
    total,     \* its total
    pstate,    \* "rest", "running", "raising" (executor shutting down), "raised", "returned"
    \* ---- summarize_meta ----
    sumIn,     \* the metadata record summarized
    sumOut,    \* the summary: raised, _state, _season; NoSummary before
    \* ---- MetaCache._lock ----
    lock       \* the thread that holds self._lock, or "free"

cacheVars == <<mc, ttl, fsys, now, pc, arg, meta, smt, envLeft>>
scanVars  == <<root, tree, stack, todo, files, seen, seenInode, sphase>>

keyVars   == <<keyIn, keyOut>>

derivVars == <<avif, srcs, art, dirs, dpc, loc, req, resp, eff, wbegun, wdone, returned,
               reqLeft, srcLeft>>

preVars == <<images, buildAvif, cpus, fut, wk, ppos, total, pstate>>

sumVars == <<sumIn, sumOut>>

lockVars == <<lock>>

vars == <<cacheVars, scanVars, keyVars, derivVars, preVars, sumVars, lockVars>>

notCache == <<scanVars, keyVars, derivVars, preVars, sumVars, lockVars>>
notScan  == <<cacheVars, keyVars, derivVars, preVars, sumVars, lockVars>>
notKey   == <<cacheVars, scanVars, derivVars, preVars, sumVars, lockVars>>
notDeriv == <<cacheVars, scanVars, keyVars, preVars, sumVars, lockVars>>
notServe == <<cacheVars, scanVars, keyVars, sumVars, lockVars>>
notSum   == <<cacheVars, scanVars, keyVars, derivVars, preVars, lockVars>>
notLock  == <<scanVars, keyVars, derivVars, preVars, sumVars>>

\* Optional[dict]: None, or a metadata record
None == [some |-> FALSE, ok |-> FALSE, exMtime |-> 0]

(***************************************************************************)
(*                         Metadata cache                                  *)
(***************************************************************************)

\* ---- bounds of the cache model ----
MaxMtime == 2
MaxTtl   == 1
MaxEnv   == 1
\* late enough for an entry of the longest ttl to expire
MaxTime  == MaxTtl + 1

Threads == {"t1", "t2"}

\* Paths handed to the cache: two real files and a symlink alias of the first.
CachePaths == {"f1", "f2", "l1"}
RealPaths  == {"f1", "f2"}

\* str(Path(path).resolve())
Resolve(p) == IF p = "l1" THEN "f1" ELSE p

NoItem == [mtime |-> 0, data |-> None, ts |-> 0, present |-> FALSE]

\* MetaCacheItem(mtime, data, ts)
MetaCacheItem(m, d, t) == [mtime |-> m, data |-> d, ts |-> t, present |-> TRUE]

\* MetaCache.__init__: self.ttl = max(0, int(ttl))
MetaCacheInitTtl(t) == IF t < 0 THEN 0 ELSE t

\* The TTL test of MetaCache.get: self.ttl and (time.time() - item.ts > self.ttl)
TtlExpired(ttlv, nowv, ts) == ttlv # 0 /\ (nowv - ts > ttlv)

\* MetaCache.get with the expiry test off by one (>= for >).
MetaCacheGetEarlyExpiry(data, path, fs, ttlv, nowv) ==
    LET p    == Resolve(path)
        item == data[p]
        drop == [data EXCEPT ![p] = NoItem]
    IN  IF ~item.present THEN [ret |-> None, data |-> data]
        ELSE IF ~fs[p].exists THEN [ret |-> None, data |-> drop]
        ELSE IF fs[p].mtime # item.mtime THEN [ret |-> None, data |-> drop]
        ELSE IF ttlv # 0 /\ (nowv - item.ts >= ttlv) THEN [ret |-> None, data |-> drop]
        ELSE [ret |-> item.data, data |-> data]

\* MetaCache.get, the whole body under the lock: the value returned and the
\* mapping afterwards.
MetaCacheGet(data, path, fs, ttlv, nowv) ==
    LET p    == Resolve(path)
        item == data[p]
        drop == [data EXCEPT ![p] = NoItem]
    IN  IF ~item.present THEN [ret |-> None, data |-> data]
        ELSE IF ~fs[p].exists THEN [ret |-> None, data |-> drop]
        ELSE IF fs[p].mtime # item.mtime THEN [ret |-> None, data |-> drop]
        ELSE IF TtlExpired(ttlv, nowv, item.ts) THEN [ret |-> None, data |-> drop]
        ELSE [ret |-> item.data, data |-> data]

\* get_exif_metadata: the first record exiftool prints, or {} when exiftool
\* fails (here: the file is gone).  The record carries the modification time
\* the file had when it was read.
EmptyMeta == [some |-> TRUE, ok |-> FALSE, exMtime |-> 0]

GetExifMetadata(fs, path) ==
    LET p == Resolve(path)
    IN  IF fs[p].exists
        THEN [some |-> TRUE, ok |-> TRUE, exMtime |-> fs[p].mtime]
        ELSE EmptyMeta

CacheRest ==
    /\ mc = [p \in RealPaths |-> NoItem]
    /\ now = 0
    /\ pc = [t \in Threads |-> "idle"]
    /\ arg = [t \in Threads |-> "f1"]
    /\ meta = [t \in Threads |-> None]
    /\ smt = [t \in Threads |-> 0]

CacheInit ==
    /\ CacheRest
    /\ ttl \in {MetaCacheInitTtl(t) : t \in -1..MaxTtl}
    /\ fsys \in {f \in [RealPaths -> [exists : BOOLEAN, mtime : {1}]] : f["f1"].exists}
    /\ envLeft = MaxEnv

\* api_images: meta = meta_cache.get(p_str)
Get(t, p) ==
    /\ pc[t] = "idle"
    /\ LET r == MetaCacheGet(mc, p, fsys, ttl, now)
       IN  /\ mc' = r.data
           /\ meta' = [meta EXCEPT ![t] = r.ret]
           /\ pc' = [pc EXCEPT ![t] = IF r.ret.some THEN "summarize" ELSE "extract"]
    /\ arg' = [arg EXCEPT ![t] = p]
    /\ UNCHANGED <<ttl, fsys, now, smt, envLeft>>
    /\ UNCHANGED notCache

\* api_images: meta = get_exif_metadata(p_str), outside the lock
Extract(t) ==
    /\ pc[t] = "extract"
    /\ meta' = [meta EXCEPT ![t] = GetExifMetadata(fsys, arg[t])]
    /\ pc' = [pc EXCEPT ![t] = "set_stat"]
    /\ UNCHANGED <<mc, ttl, fsys, now, arg, smt, envLeft>>
    /\ UNCHANGED notCache

\* MetaCache.set with the except branch falling through to the write.
SetStatWritesAnyway(t) ==
    /\ pc[t] = "set_stat"
    /\ smt' = [smt EXCEPT ![t] =
                  IF fsys[Resolve(arg[t])].exists THEN fsys[Resolve(arg[t])].mtime ELSE 0]
    /\ pc' = [pc EXCEPT ![t] = "set_write"]
    /\ UNCHANGED <<mc, ttl, fsys, now, arg, meta, envLeft>>
    /\ UNCHANGED notCache

\* MetaCache.set: mtime = os.path.getmtime(p), before the lock is taken; a
\* missing file drops the write.
SetStat(t) ==
    /\ pc[t] = "set_stat"
    /\ IF fsys[Resolve(arg[t])].exists
       THEN /\ smt' = [smt EXCEPT ![t] = fsys[Resolve(arg[t])].mtime]
            /\ pc' = [pc EXCEPT ![t] = "set_write"]
       ELSE /\ smt' = smt
            /\ pc' = [pc EXCEPT ![t] = "summarize"]
    /\ UNCHANGED <<mc, ttl, fsys, now, arg, meta, envLeft>>
    /\ UNCHANGED notCache

\* MetaCache.set: with self._lock: self._data[p] = MetaCacheItem(mtime, data, time.time())
MetaCacheSetWrite(data, path, m, d, nowv) ==
    [data EXCEPT ![Resolve(path)] = MetaCacheItem(m, d, nowv)]

SetWrite(t) ==
    /\ pc[t] = "set_write"
    /\ mc' = MetaCacheSetWrite(mc, arg[t], smt[t], meta[t], now)
    /\ pc' = [pc EXCEPT ![t] = "summarize"]
    /\ UNCHANGED <<ttl, fsys, now, arg, meta, smt, envLeft>>
    /\ UNCHANGED notCache

\* api_images: summary = summarize_meta(meta); the loop body ends
Summarize(t) ==
    /\ pc[t] = "summarize"
    /\ pc' = [pc EXCEPT ![t] = "idle"]
    /\ arg' = [arg EXCEPT ![t] = "f1"]
    /\ meta' = [meta EXCEPT ![t] = None]
    /\ smt' = [smt EXCEPT ![t] = 0]
    /\ UNCHANGED <<mc, ttl, fsys, now, envLeft>>
    /\ UNCHANGED notCache

\* The environment: a source file is rewritten (its modification time changes),
\* removed or created, and time passes.
Touch(f) ==
    /\ envLeft > 0
    /\ fsys[f].exists
    /\ \E m \in 1..MaxMtime :
          /\ m # fsys[f].mtime
          /\ fsys' = [fsys EXCEPT ![f].mtime = m]
    /\ envLeft' = envLeft - 1
    /\ UNCHANGED <<mc, ttl, now, pc, arg, meta, smt>>
    /\ UNCHANGED notCache

Remove(f) ==
    /\ envLeft > 0
    /\ fsys[f].exists
    /\ fsys' = [fsys EXCEPT ![f].exists = FALSE]
    /\ envLeft' = envLeft - 1
    /\ UNCHANGED <<mc, ttl, now, pc, arg, meta, smt>>
    /\ UNCHANGED notCache

Create(f) ==
    /\ envLeft > 0
    /\ ~fsys[f].exists
    /\ \E m \in 1..MaxMtime : fsys' = [fsys EXCEPT ![f] = [exists |-> TRUE, mtime |-> m]]
    /\ envLeft' = envLeft - 1
    /\ UNCHANGED <<mc, ttl, now, pc, arg, meta, smt>>
    /\ UNCHANGED notCache

Tick ==
    /\ now < MaxTime
    /\ now' = now + 1
    /\ UNCHANGED <<mc, ttl, fsys, pc, arg, meta, smt, envLeft>>
    /\ UNCHANGED notCache

CacheNext ==
    \/ \E t \in Threads, p \in CachePaths : Get(t, p)
    \/ \E t \in Threads : Extract(t)
    \/ \E t \in Threads : SetStat(t)
    \/ \E t \in Threads : SetWrite(t)
    \/ \E t \in Threads : Summarize(t)
    \/ \E f \in RealPaths : Touch(f)
    \/ \E f \in RealPaths : Remove(f)
    \/ \E f \in RealPaths : Create(f)
    \/ Tick

(***************************************************************************)
(*              MetaCache with self._lock as a variable                    *)
(***************************************************************************)

\* threading.Lock.acquire without the wait: the lock is taken whoever holds it.
LockFreeAlways(l) == TRUE

\* threading.Lock.acquire returns when no thread holds the lock
LockFree(l) == l = "free"

LockRest == lock = "free"

\* The files stay as they are while the requests run
LockInit ==
    /\ CacheInit
    /\ lock = "free"

\* MetaCache.get: p = str(Path(path).resolve()); with self._lock: entered
LockGetEnter(t, p) ==
    /\ pc[t] = "idle"
    /\ LockFree(lock)
    /\ lock' = t
    /\ pc' = [pc EXCEPT ![t] = "get_in"]
    /\ arg' = [arg EXCEPT ![t] = p]
    /\ UNCHANGED <<mc, ttl, fsys, now, meta, smt, envLeft>>
    /\ UNCHANGED notLock

\* MetaCache.get: the body of the with block, and the lock released on return
LockGetBody(t) ==
    /\ pc[t] = "get_in"
    /\ LET r == MetaCacheGet(mc, arg[t], fsys, ttl, now)
       IN  /\ mc' = r.data
           /\ meta' = [meta EXCEPT ![t] = r.ret]
           /\ pc' = [pc EXCEPT ![t] = IF r.ret.some THEN "summarize" ELSE "extract"]
    /\ lock' = IF lock = t THEN "free" ELSE lock
    /\ UNCHANGED <<ttl, fsys, now, arg, smt, envLeft>>
    /\ UNCHANGED notLock

\* MetaCache.set: with self._lock: entered
LockSetEnter(t) ==
    /\ pc[t] = "set_write"
    /\ LockFree(lock)
    /\ lock' = t
    /\ pc' = [pc EXCEPT ![t] = "set_in"]
    /\ UNCHANGED <<mc, ttl, fsys, now, arg, meta, smt, envLeft>>
    /\ UNCHANGED notLock

\* MetaCache.set: self._data[p] = MetaCacheItem(...), and the lock released
LockSetBody(t) ==
    /\ pc[t] = "set_in"
    /\ mc' = MetaCacheSetWrite(mc, arg[t], smt[t], meta[t], now)
    /\ pc' = [pc EXCEPT ![t] = "summarize"]
    /\ lock' = IF lock = t THEN "free" ELSE lock
    /\ UNCHANGED <<ttl, fsys, now, arg, meta, smt, envLeft>>
    /\ UNCHANGED notLock

LockNext ==
    \/ \E t \in Threads, p \in CachePaths : LockGetEnter(t, p)
    \/ \E t \in Threads : LockGetBody(t)
    \/ \E t \in Threads : Extract(t)
    \/ \E t \in Threads : SetStat(t)
    \/ \E t \in Threads : LockSetEnter(t)
    \/ \E t \in Threads : LockSetBody(t)
    \/ \E t \in Threads : Summarize(t)
    \/ Tick

(***************************************************************************)
(*                  Strings, as sequences of characters                    *)
(***************************************************************************)

UpperLetters == <<"A", "B", "C", "D", "E", "F", "G", "H", "I", "J", "K", "L", "M", "N", "O", "P", "Q", "R", "S", "T", "U", "V", "W", "X", "Y", "Z">>
LowerLetters == <<"a", "b", "c", "d", "e", "f", "g", "h", "i", "j", "k", "l", "m", "n", "o", "p", "q", "r", "s", "t", "u", "v", "w", "x", "y", "z">>

\* The characters in code-point order (Python compares strings by code point).
CodeOrder ==
    <<"*", "-", ".", "/", "0", "1", "2", "3", "4", "5", "6", "7", "8", "9", ":", "?">>
        \o UpperLetters \o <<"_">> \o LowerLetters

Code(c) == CHOOSE i \in 1..Len(CodeOrder) : CodeOrder[i] = c

\* str.lower(), one character
LowerChar(c) ==
    IF \E i \in 1..26 : UpperLetters[i] = c
    THEN LowerLetters[CHOOSE i \in 1..26 : UpperLetters[i] = c]
    ELSE c

\* str.lower()
Lower(s) == [i \in 1..Len(s) |-> LowerChar(s[i])]

\* s < t for Python strings
RECURSIVE StrLess(_, _)
StrLess(s, t) ==
    IF t = <<>> THEN FALSE
    ELSE IF s = <<>> THEN TRUE
    ELSE IF Head(s) = Head(t) THEN StrLess(Tail(s), Tail(t))
    ELSE Code(Head(s)) < Code(Head(t))

\* fnmatch.fnmatch(name, pat) for patterns of literal characters, * and ?
RECURSIVE FnMatch(_, _)
FnMatch(name, pat) ==
    IF pat = <<>> THEN name = <<>>
    ELSE IF Head(pat) = "*"
         THEN FnMatch(name, Tail(pat)) \/ (name # <<>> /\ FnMatch(Tail(name), pat))
    ELSE IF Head(pat) = "?"
         THEN name # <<>> /\ FnMatch(Tail(name), Tail(pat))
    ELSE name # <<>> /\ Head(name) = Head(pat) /\ FnMatch(Tail(name), Tail(pat))

\* str.rfind("."), 1-based; 0 when there is no dot
RFindDot(s) ==
    IF \E i \in 1..Len(s) : s[i] = "."
    THEN CHOOSE i \in 1..Len(s) : s[i] = "." /\ \A j \in (i+1)..Len(s) : s[j] # "."
    ELSE 0

\* PurePath.suffix of a file name: from the last dot, unless the dot is the
\* first or the last character
Suffix(name) ==
    LET i == RFindDot(name)
    IN  IF 1 < i /\ i < Len(name) THEN SubSeq(name, i, Len(name)) ELSE <<>>

\* str(path): a path is the sequence of its segments below "/"
RECURSIVE PathStr(_)
PathStr(path) ==
    IF path = <<>> THEN <<>> ELSE <<"/">> \o Head(path) \o PathStr(Tail(path))

Digits == <<"0", "1", "2", "3", "4", "5", "6", "7", "8", "9">>

\* str(n) for an integer n >= 0
RECURSIVE Dec(_)
Dec(n) == IF n < 10 THEN <<Digits[n + 1]>> ELSE Dec(n \div 10) \o <<Digits[(n % 10) + 1]>>

\* The string is a run of decimal digits: int(s) succeeds.  (Signs, blanks and
\* underscores, which int() also takes, are left out of the requests modelled.)
IsInt(s) == s # <<>> /\ \A i \in 1..Len(s) : \E d \in 1..10 : Digits[d] = s[i]

\* int(s) for a run of decimal digits
RECURSIVE IntOf(_)
IntOf(s) ==
    IF s = <<>> THEN 0
    ELSE 10 * IntOf(SubSeq(s, 1, Len(s) - 1))
         + (CHOOSE d \in 0..9 : Digits[d + 1] = s[Len(s)])

(***************************************************************************)
(*                     Image scan with de-duplication                      *)
(***************************************************************************)

\* ---- bound of the scan model: the number of directory entries of a tree ----
MaxFiles == 5

IGNORE_DIRS ==
    { <<"_", "_", "M", "A", "C", "O", "S", "X">>, <<".", "c", "a", "c", "h", "e">>,
      <<"t", "h", "u", "m", "b", "n", "a", "i", "l", "s">>, <<"p", "r", "e", "v", "i", "e", "w", "s">>,
      <<"i", "c", "o", "n", "s">>, <<"u", "i">>,
      <<".", "g", "i", "t">>, <<".", "s", "v", "n">> }

IGNORE_GLOBS_DEFAULT ==
    << <<"t", "h", "u", "m", "b", ".", "*">>,
       <<"*", "t", "h", "u", "m", "b", "n", "a", "i", "l", "*">>,
       <<"*", "_", "t", "h", "u", "m", "b", ".", "*">>,
       <<"*", "_", "p", "r", "e", "v", "i", "e", "w", "*">>,
       <<"*", "p", "r", "e", "v", "i", "e", "w", "*">>,
       <<"p", "l", "u", "s", ".", "*">>,
       <<"m", "i", "n", "u", "s", ".", "*">>,
       <<"m", "o", "r", "e", ".", "*">>,
       <<"l", "e", "s", "s", ".", "*">>,
       <<"c", "o", "n", "s", "o", "l", "e", ".", "*">>,
       <<"*", "i", "c", "o", "n", "*">>,
       <<"*", "s", "p", "r", "i", "t", "e", "*">>,
       <<".", "D", "S", "_", "S", "t", "o", "r", "e">>,
       <<".", "_", "*">>,
       <<"*", ".", "x", "m", "p">>,
       <<"*", ".", "p", "p", "3">> >>

\* GALLERY_IGNORE_GLOBS is unset
IGNORE_GLOBS == IGNORE_GLOBS_DEFAULT

DEFAULT_EXTS ==
    { <<".", "j", "p", "g">>, <<".", "j", "p", "e", "g">>, <<".", "p", "n", "g">>,
      <<".", "t", "i", "f">>, <<".", "t", "i", "f", "f">>, <<".", "h", "e", "i", "c">>,
      <<".", "h", "e", "i", "f">>, <<".", "w", "e", "b", "p">>, <<".", "a", "v", "i", "f">> }

\* {d.lower() for d in IGNORE_DIRS}
IgnoreDirsLower == {Lower(d) : d \in IGNORE_DIRS}

\* The file name matches one of the ignore globs, both lower-cased.
GlobIgnored(name) ==
    \E i \in 1..Len(IGNORE_GLOBS) : FnMatch(Lower(name), Lower(IGNORE_GLOBS[i]))

\* should_ignore(path): any part of the path is an ignored directory name, or
\* the name matches an ignore glob.  (path.parts also holds the anchor "/",
\* which is no ignored name.)
ShouldIgnore(path) ==
    \/ \E i \in 1..Len(path) : Lower(path[i]) \in IgnoreDirsLower
    \/ GlobIgnored(path[Len(path)])

\* is_image(path)
IsImage(path) == Lower(Suffix(path[Len(path)])) \in DEFAULT_EXTS

\* A directory entry for a file: the directory it is in (below the root), its
\* name, the path below the root a symbolic link points to (<<>> for a regular
\* file) and the inode of a regular file.  Two regular entries with one inode
\* are hard links.
FileEntry(d, n, i)  == [dir |-> d, name |-> n, link |-> <<>>, ino |-> i]
LinkEntry(d, n, to) == [dir |-> d, name |-> n, link |-> to, ino |-> 0]

Universe ==
    { FileEntry(<<>>, <<"a", ".", "j", "p", "g">>, 1),
      FileEntry(<<>>, <<"B", ".", "J", "P", "G">>, 2),
      FileEntry(<<>>, <<"t", "h", "u", "m", "b", ".", "j", "p", "g">>, 3),
      FileEntry(<< <<".", "c", "a", "c", "h", "e">> >>, <<"c", ".", "j", "p", "g">>, 4),
      FileEntry(<< <<"d">> >>, <<"y", ".", "j", "p", "g">>, 6),
      FileEntry(<<>>, <<"z", ".", "j", "p", "g">>, 6),
      LinkEntry(<<>>, <<"l", ".", "j", "p", "g">>, << <<"a", ".", "j", "p", "g">> >>),
      FileEntry(<<>>, <<"n", "o", "t", "e", "s", ".", "t", "x", "t">>, 8),
      LinkEntry(<<>>, <<"k", ".", "j", "p", "g">>, << <<"g", "o", "n", "e", ".", "j", "p", "g">> >>) }

\* The roots scanned: /p and /ui/p
Roots == { << <<"p">> >>, << <<"u", "i">>, <<"p">> >> }

\* Path(dirpath) / fn
EntryPath(rt, e) == rt \o e.dir \o <<e.name>>

\* p.resolve(): the root is resolved and os.walk follows no directory links, so
\* only a link in the last segment is followed
ResolveEntry(rt, e) == IF e.link = <<>> THEN EntryPath(rt, e) ELSE rt \o e.link

\* os.stat(rp): (st_ino, st_dev) of the regular file at rp; StatFails when
\* there is none (a dangling link)
StatFails == <<0, 0>>

Stat(tr, rt, rp) ==
    IF \E e \in tr : e.link = <<>> /\ EntryPath(rt, e) = rp
    THEN <<(CHOOSE e \in tr : e.link = <<>> /\ EntryPath(rt, e) = rp).ino, 1>>
    ELSE StatFails

\* The sort key of scan_images: str(p).lower()
SortKey(path) == Lower(PathStr(path))

\* The body of the loop over filenames without the inode test.
ScanVisitNoInode(st, tr, rt, e) ==
    LET p   == EntryPath(rt, e)
        rp  == ResolveEntry(rt, e)
        key == Lower(PathStr(rp))
    IN  IF ShouldIgnore(p) \/ ~IsImage(p) THEN st
        ELSE IF key \in st.seen THEN st
        ELSE [files |-> Append(st.files, rp), seen |-> st.seen \cup {key},
              seenInode |-> st.seenInode]

\* scan_images: the body of the loop over filenames, for one file name
ScanVisit(st, tr, rt, e) ==
    LET p   == EntryPath(rt, e)
        rp  == ResolveEntry(rt, e)
        key == Lower(PathStr(rp))
        tup == Stat(tr, rt, rp)
    IN  IF ShouldIgnore(p) \/ ~IsImage(p) THEN st
        ELSE IF key \in st.seen THEN st
        ELSE IF tup # StatFails /\ tup \in st.seenInode THEN st
        ELSE [files |-> Append(st.files, rp),
              seen |-> st.seen \cup {key},
              seenInode |-> IF tup # StatFails THEN st.seenInode \cup {tup}
                            ELSE st.seenInode]

\* list.sort(key=...): a stable insertion sort
RECURSIVE InsertSorted(_, _)
InsertSorted(x, s) ==
    IF s = <<>> THEN <<x>>
    ELSE IF StrLess(SortKey(x), SortKey(Head(s))) THEN <<x>> \o s
    ELSE <<Head(s)>> \o InsertSorted(x, Tail(s))

RECURSIVE SortFiles(_)
SortFiles(s) ==
    IF s = <<>> THEN <<>>
    ELSE InsertSorted(s[Len(s)], SortFiles(SubSeq(s, 1, Len(s) - 1)))

\* The names of the directories directly below directory d
SubDirs(tr, d) ==
    { e.dir[Len(d) + 1] : e \in {x \in tr : Len(x.dir) > Len(d) /\ SubSeq(x.dir, 1, Len(d)) = d} }

\* The orders a directory listing can come in
Orders(S) ==
    { s \in [1..Cardinality(S) -> S] : \A i, j \in 1..Cardinality(S) : i # j => s[i] # s[j] }

ScanRest ==
    /\ root = <<>>
    /\ tree = {}
    /\ stack = <<>>
    /\ todo = {}
    /\ files = <<>>
    /\ seen = {}
    /\ seenInode = {}
    /\ sphase = "rest"

\* scan_images(root) is called on some tree
ScanInit ==
    /\ root \in Roots
    /\ tree \in {S \in SUBSET Universe : Cardinality(S) <= MaxFiles}
    /\ stack = << <<>> >>
    /\ todo = {}
    /\ files = <<>>
    /\ seen = {}
    /\ seenInode = {}
    /\ sphase = "walk"

\* os.walk yields the next directory; dirnames[:] keeps the sub-directories
\* whose name is not ignored, and the walk descends into them next, in the
\* order of the listing
EnterDir ==
    /\ sphase = "walk"
    /\ todo = {}
    /\ stack # <<>>
    /\ LET d    == Head(stack)
           kept == {n \in SubDirs(tree, d) : Lower(n) \notin IgnoreDirsLower}
       IN  /\ \E ord \in Orders(kept) :
                 stack' = [i \in 1..Cardinality(kept) |-> d \o <<ord[i]>>] \o Tail(stack)
           /\ todo' = {e \in tree : e.dir = d}
    /\ UNCHANGED <<root, tree, files, seen, seenInode, sphase>>
    /\ UNCHANGED notScan

\* for fn in filenames: one file name of the current directory, in any order
VisitFile(e) ==
    /\ sphase = "walk"
    /\ e \in todo
    /\ LET st == ScanVisit([files |-> files, seen |-> seen, seenInode |-> seenInode],
                           tree, root, e)
       IN  /\ files' = st.files
           /\ seen' = st.seen
           /\ seenInode' = st.seenInode
    /\ todo' = todo \ {e}
    /\ UNCHANGED <<root, tree, stack, sphase>>
    /\ UNCHANGED notScan

\* files.sort(key=lambda p: str(p).lower()); return files
FinishScan ==
    /\ sphase = "walk"
    /\ todo = {}
    /\ stack = <<>>
    /\ files' = SortFiles(files)
    /\ sphase' = "done"
    /\ UNCHANGED <<root, tree, stack, todo, seen, seenInode>>
    /\ UNCHANGED notScan

ScanNext ==
    \/ EnterDir
    \/ \E e \in Universe : VisitFile(e)
    \/ FinishScan

(***************************************************************************)
(*                        Content-address keys                             *)
(***************************************************************************)

WEBP == <<"w", "e", "b", "p">>
AVIF == <<"a", "v", "i", "f">>

\* THUMB_SIZES = [256, 512, 1024]
THUMB_SIZES == <<256, 512, 1024>>

ThumbSizeSet == {THUMB_SIZES[i] : i \in 1..Len(THUMB_SIZES)}

\* DISPLAY_MAX, GALLERY_DISPLAY_MAX unset
DISPLAY_MAX == 3840

\* f"thumb:{w}:{fmt}"
ThumbExtra(w, fmt) == <<"t", "h", "u", "m", "b", ":">> \o Dec(w) \o <<":">> \o fmt

\* f"display:{max_long}:{fmt}"
DisplayExtra(maxLong, fmt) ==
    <<"d", "i", "s", "p", "l", "a", "y", ":">> \o Dec(maxLong) \o <<":">> \o fmt

\* sha_for(src, extra): the bytes fed to SHA-1, one update after the other.  The
\* digest stands for these bytes (SHA-1 taken as collision-free).
ShaFor(src, mtimeNs, size, extra) ==
    PathStr(src) \o Dec(mtimeNs) \o Dec(size) \o extra

\* thumb_cache_path(src, w, fmt): CACHE_DIR_THUMBS / digest[:2]/digest[2:] / thumb.<fmt>
ThumbCachePath(src, mtimeNs, size, w, fmt) ==
    [dir |-> "thumbs", digest |-> ShaFor(src, mtimeNs, size, ThumbExtra(w, fmt)),
     fname |-> <<"t", "h", "u", "m", "b", ".">> \o fmt]

\* display_cache_path(src, max_long, fmt)
DisplayCachePath(src, mtimeNs, size, maxLong, fmt) ==
    [dir |-> "display", digest |-> ShaFor(src, mtimeNs, size, DisplayExtra(maxLong, fmt)),
     fname |-> <<"d", "i", "s", "p", "l", "a", "y", ".">> \o fmt]

NoPath == [dir |-> "none", digest |-> <<>>, fname |-> <<>>]

\* The sources, stat values and variants of the key model
KeySources == { << <<"p">>, <<"a", ".", "j", "p", "g">> >>, << <<"p">>, <<"b", "1">> >> }
KeyMtimes  == {1, 12}
KeySizes   == {3, 23}
KeyParams  == {256, 512}

KeyInputs ==
    [src : KeySources, mtimeNs : KeyMtimes, size : KeySizes,
     kind : {"thumb", "display"}, param : KeyParams, fmt : {WEBP, AVIF}]

KeyRest ==
    /\ keyIn = <<>>
    /\ keyOut = <<>>

KeyInit ==
    /\ keyIn \in [1..2 -> KeyInputs]
    /\ keyOut = [i \in 1..2 |-> NoPath]

\* thumb_cache_path is called for request i
ComputeThumbPath(i) ==
    /\ keyOut[i] = NoPath
    /\ keyIn[i].kind = "thumb"
    /\ keyOut' = [keyOut EXCEPT ![i] =
          ThumbCachePath(keyIn[i].src, keyIn[i].mtimeNs, keyIn[i].size,
                         keyIn[i].param, keyIn[i].fmt)]
    /\ UNCHANGED keyIn
    /\ UNCHANGED notKey

\* display_cache_path is called for request i
ComputeDisplayPath(i) ==
    /\ keyOut[i] = NoPath
    /\ keyIn[i].kind = "display"
    /\ keyOut' = [keyOut EXCEPT ![i] =
          DisplayCachePath(keyIn[i].src, keyIn[i].mtimeNs, keyIn[i].size,
                           keyIn[i].param, keyIn[i].fmt)]
    /\ UNCHANGED keyIn
    /\ UNCHANGED notKey

KeyNext ==
    \/ \E i \in 1..2 : ComputeThumbPath(i)
    \/ \E i \in 1..2 : ComputeDisplayPath(i)

(***************************************************************************)
(*        summarize_meta: normalize_state_full and parse_season            *)
(***************************************************************************)

\* str.upper(), one character
UpperChar(c) ==
    IF \E i \in 1..26 : LowerLetters[i] = c
    THEN UpperLetters[CHOOSE i \in 1..26 : LowerLetters[i] = c]
    ELSE c

\* str.upper()
Upper(s) == [i \in 1..Len(s) |-> UpperChar(s[i])]

IsLetter(c) == \E i \in 1..26 : UpperLetters[i] = c \/ LowerLetters[i] = c

\* str.isalpha()
IsAlpha(s) == s # <<>> /\ \A i \in 1..Len(s) : IsLetter(s[i])

\* str.title(): a letter after a character that is not a letter is upper-cased,
\* every other letter lower-cased
Title(s) ==
    [i \in 1..Len(s) |->
        IF i = 1 \/ ~IsLetter(s[i - 1]) THEN UpperChar(s[i]) ELSE LowerChar(s[i])]

\* str.strip(), for blanks
RECURSIVE LStrip(_)
LStrip(s) == IF s # <<>> /\ Head(s) = " " THEN LStrip(Tail(s)) ELSE s

RECURSIVE RStrip(_)
RStrip(s) ==
    IF s # <<>> /\ s[Len(s)] = " " THEN RStrip(SubSeq(s, 1, Len(s) - 1)) ELSE s

Strip(s) == RStrip(LStrip(s))

\* str.split(","): the pieces between the commas
RECURSIVE SplitComma(_)
SplitComma(s) ==
    IF \E i \in 1..Len(s) : s[i] = ","
    THEN LET i == CHOOSE k \in 1..Len(s) : s[k] = "," /\ \A j \in 1..(k - 1) : s[j] # ","
         IN  <<SubSeq(s, 1, i - 1)>> \o SplitComma(SubSeq(s, i + 1, Len(s)))
    ELSE <<s>>

\* str.startswith
StartsWith(s, pre) == Len(s) >= Len(pre) /\ SubSeq(s, 1, Len(pre)) = pre

US_ABBR_TO_FULL ==
    << <<<<"A", "L">>, <<"A", "l", "a", "b", "a", "m", "a">>>>,
       <<<<"A", "K">>, <<"A", "l", "a", "s", "k", "a">>>>,
       <<<<"A", "Z">>, <<"A", "r", "i", "z", "o", "n", "a">>>>,
       <<<<"A", "R">>, <<"A", "r", "k", "a", "n", "s", "a", "s">>>>,
       <<<<"C", "A">>, <<"C", "a", "l", "i", "f", "o", "r", "n", "i", "a">>>>,
       <<<<"C", "O">>, <<"C", "o", "l", "o", "r", "a", "d", "o">>>>,
       <<<<"C", "T">>, <<"C", "o", "n", "n", "e", "c", "t", "i", "c", "u", "t">>>>,
       <<<<"D", "E">>, <<"D", "e", "l", "a", "w", "a", "r", "e">>>>,
       <<<<"F", "L">>, <<"F", "l", "o", "r", "i", "d", "a">>>>,
       <<<<"G", "A">>, <<"G", "e", "o", "r", "g", "i", "a">>>>,
       <<<<"H", "I">>, <<"H", "a", "w", "a", "i", "i">>>>,
       <<<<"I", "D">>, <<"I", "d", "a", "h", "o">>>>,
       <<<<"I", "L">>, <<"I", "l", "l", "i", "n", "o", "i", "s">>>>,
       <<<<"I", "N">>, <<"I", "n", "d", "i", "a", "n", "a">>>>,
       <<<<"I", "A">>, <<"I", "o", "w", "a">>>>,
       <<<<"K", "S">>, <<"K", "a", "n", "s", "a", "s">>>>,
       <<<<"K", "Y">>, <<"K", "e", "n", "t", "u", "c", "k", "y">>>>,
       <<<<"L", "A">>, <<"L", "o", "u", "i", "s", "i", "a", "n", "a">>>>,
       <<<<"M", "E">>, <<"M", "a", "i", "n", "e">>>>,
       <<<<"M", "D">>, <<"M", "a", "r", "y", "l", "a", "n", "d">>>>,
       <<<<"M", "A">>, <<"M", "a", "s", "s", "a", "c", "h", "u", "s", "e", "t", "t", "s">>>>,
       <<<<"M", "I">>, <<"M", "i", "c", "h", "i", "g", "a", "n">>>>,
       <<<<"M", "N">>, <<"M", "i", "n", "n", "e", "s", "o", "t", "a">>>>,
       <<<<"M", "S">>, <<"M", "i", "s", "s", "i", "s", "s", "i", "p", "p", "i">>>>,
       <<<<"M", "O">>, <<"M", "i", "s", "s", "o", "u", "r", "i">>>>,
       <<<<"M", "T">>, <<"M", "o", "n", "t", "a", "n", "a">>>>,
       <<<<"N", "E">>, <<"N", "e", "b", "r", "a", "s", "k", "a">>>>,
       <<<<"N", "V">>, <<"N", "e", "v", "a", "d", "a">>>>,
       <<<<"N", "H">>, <<"N", "e", "w", " ", "H", "a", "m", "p", "s", "h", "i", "r", "e">>>>,
       <<<<"N", "J">>, <<"N", "e", "w", " ", "J", "e", "r", "s", "e", "y">>>>,
       <<<<"N", "M">>, <<"N", "e", "w", " ", "M", "e", "x", "i", "c", "o">>>>,
       <<<<"N", "Y">>, <<"N", "e", "w", " ", "Y", "o", "r", "k">>>>,
       <<<<"N", "C">>, <<"N", "o", "r", "t", "h", " ", "C", "a", "r", "o", "l", "i", "n", "a">>>>,
       <<<<"N", "D">>, <<"N", "o", "r", "t", "h", " ", "D", "a", "k", "o", "t", "a">>>>,
       <<<<"O", "H">>, <<"O", "h", "i", "o">>>>,
       <<<<"O", "K">>, <<"O", "k", "l", "a", "h", "o", "m", "a">>>>,
       <<<<"O", "R">>, <<"O", "r", "e", "g", "o", "n">>>>,
       <<<<"P", "A">>, <<"P", "e", "n", "n", "s", "y", "l", "v", "a", "n", "i", "a">>>>,
       <<<<"R", "I">>, <<"R", "h", "o", "d", "e", " ", "I", "s", "l", "a", "n", "d">>>>,
       <<<<"S", "C">>, <<"S", "o", "u", "t", "h", " ", "C", "a", "r", "o", "l", "i", "n", "a">>>>,
       <<<<"S", "D">>, <<"S", "o", "u", "t", "h", " ", "D", "a", "k", "o", "t", "a">>>>,
       <<<<"T", "N">>, <<"T", "e", "n", "n", "e", "s", "s", "e", "e">>>>,
       <<<<"T", "X">>, <<"T", "e", "x", "a", "s">>>>,
       <<<<"U", "T">>, <<"U", "t", "a", "h">>>>,
       <<<<"V", "T">>, <<"V", "e", "r", "m", "o", "n", "t">>>>,
       <<<<"V", "A">>, <<"V", "i", "r", "g", "i", "n", "i", "a">>>>,
       <<<<"W", "A">>, <<"W", "a", "s", "h", "i", "n", "g", "t", "o", "n">>>>,
       <<<<"W", "V">>, <<"W", "e", "s", "t", " ", "V", "i", "r", "g", "i", "n", "i", "a">>>>,
       <<<<"W", "I">>, <<"W", "i", "s", "c", "o", "n", "s", "i", "n">>>>,
       <<<<"W", "Y">>, <<"W", "y", "o", "m", "i", "n", "g">>>> >>

\* US_ABBR_TO_FULL.get(abbr, abbr)
AbbrToFull(abbr) ==
    IF \E i \in DOMAIN US_ABBR_TO_FULL : US_ABBR_TO_FULL[i][1] = abbr
    THEN US_ABBR_TO_FULL[CHOOSE i \in DOMAIN US_ABBR_TO_FULL : US_ABBR_TO_FULL[i][1] = abbr][2]
    ELSE abbr

\* The keys of US_FULL_TO_ABBR
US_FULL_TO_ABBR == {Lower(US_ABBR_TO_FULL[i][2]) : i \in DOMAIN US_ABBR_TO_FULL}

\* The table left out: every value is title-cased.
StateOfTitleOnly(raw) == Title(Strip(raw))

\* normalize_state_full: what is returned for the first value that is not empty
StateOf(raw) ==
    LET s == Strip(raw)
    IN  IF Len(s) = 2 /\ IsAlpha(s) THEN AbbrToFull(Upper(s))
        ELSE IF Lower(s) \in US_FULL_TO_ABBR THEN Title(s)
        ELSE Title(s)

\* normalize_state_full; None is <<>>
NormalizeStateFull(mt) ==
    IF mt.State # <<>> THEN StateOf(mt.State)
    ELSE IF mt.ProvinceState # <<>> THEN StateOf(mt.ProvinceState)
    ELSE <<>>

\* A Keywords value of the metadata: none, a string, a number, or a list of
\* strings and numbers (exiftool -j writes a keyword of digits as a number)
KwNone    == [t |-> "none", s |-> <<>>, items |-> <<>>]
KwStr(s)  == [t |-> "str", s |-> s, items |-> <<>>]
KwNum(d)  == [t |-> "num", s |-> d, items |-> <<>>]
KwList(l) == [t |-> "list", s |-> <<>>, items |-> l]

\* An element of a Keywords list
ItemStr(s) == [t |-> "str", s |-> s]
ItemNum(d) == [t |-> "num", s |-> d]

\* kw_list of parse_season: the list, or the stripped pieces of str(kw)
KwListOf(kw) ==
    IF kw.t = "list" THEN kw.items
    ELSE IF kw.t = "none" \/ kw.s = <<>> \/ (kw.t = "num" /\ kw.s = <<"0">>)
         THEN <<ItemStr(<<>>)>>
    ELSE LET parts == SplitComma(kw.s)
         IN  [i \in DOMAIN parts |-> ItemStr(Strip(parts[i]))]

SeasonPrefix == <<"s", "e", "a", "s", "o", "n", ":">>

Raised  == [raised |-> TRUE, v |-> <<>>]
Ret(v)  == [raised |-> FALSE, v |-> v]

\* parse_season: the loop over kw_list; k.lower() raises AttributeError for
\* an element that is a number; None is <<>>
RECURSIVE SeasonLoop(_)
SeasonLoop(l) ==
    IF l = <<>> THEN Ret(<<>>)
    ELSE IF Head(l).t = "num" THEN Raised
    ELSE IF StartsWith(Lower(Head(l).s), SeasonPrefix)
         THEN LET v == SubSeq(Lower(Head(l).s), Len(SeasonPrefix) + 1, Len(Head(l).s))
              IN  Ret(IF v = <<"f", "a", "l", "l">> THEN <<"a", "u", "t", "u", "m", "n">> ELSE v)
    ELSE SeasonLoop(Tail(l))

ParseSeason(mt) == SeasonLoop(KwListOf(mt.Keywords))

\* The metadata summarize_meta reads for the two fields
Meta(st, pv, kw) == [State |-> st, ProvinceState |-> pv, Keywords |-> kw]

\* summarize_meta: string values are stripped; _state and _season are set when
\* the value is not empty (<<>> is a field that is absent)
SummarizeMeta(mt) ==
    LET out == [State |-> Strip(mt.State), ProvinceState |-> Strip(mt.ProvinceState),
                Keywords |-> IF mt.Keywords.t = "str" THEN KwStr(Strip(mt.Keywords.s))
                             ELSE mt.Keywords]
        ss  == ParseSeason(out)
    IN  IF ss.raised THEN [raised |-> TRUE, state |-> <<>>, season |-> <<>>]
        ELSE [raised |-> FALSE, state |-> NormalizeStateFull(out), season |-> ss.v]

NoSummary == [raised |-> FALSE, state |-> <<"-">>, season |-> <<"-">>]

\* The State values of the model: every code and every full name of the table
\* in three letter cases, and values that are neither
OtherRegions ==
    { <<"X", "X">>,
      <<"x", "x">>,
      <<"Z", "q">>,
      <<"q", "u", "e", "b", "e", "c">>,
      <<"Q", "U", "E", "B", "E", "C">>,
      <<"Q", "u", "e", "b", "e", "c">>,
      <<"b", "r", "i", "t", "i", "s", "h", " ", "c", "o", "l", "u", "m", "b", "i", "a">>,
      <<"m", "1">>,
      <<"O", "N">>,
      <<"n", "e", "w", "-", "y", "o", "r", "k">>,
      <<"a">> }


MixedCase(s) == [i \in 1..Len(s) |-> IF i % 2 = 1 THEN UpperChar(s[i]) ELSE LowerChar(s[i])]

TableValues == UNION { {US_ABBR_TO_FULL[i][1], US_ABBR_TO_FULL[i][2]} : i \in DOMAIN US_ABBR_TO_FULL }

StateValues ==
    OtherRegions \cup UNION { {v, Lower(v), Upper(v), MixedCase(v)} : v \in TableValues }

ProvinceValues ==
    { <<>>, <<"q", "u", "e", "b", "e", "c">>, <<"m", "a">>, <<" ">> }

KeywordValues ==
    { KwNone,
      KwStr(<<>>),
      KwNum(<<"0">>),
      KwNum(<<"2", "0", "1", "9">>),
      KwStr(<<"S", "e", "a", "s", "o", "n", ":", "F", "a", "l", "l">>),
      KwStr(<<"s", "e", "a", "s", "o", "n", ":", "w", "i", "n", "t", "e", "r">>),
      KwStr(<<"t", "r", "i", "p", ",", " ", "S", "e", "a", "s", "o", "n", ":", "F", "a", "l", "l">>),
      KwStr(<<"t", "r", "i", "p", ",", "S", "E", "A", "S", "O", "N", ":", "S", "p", "r", "i", "n", "g", ",", "s", "e", "a", "s", "o", "n", ":", "w", "i", "n", "t", "e", "r">>),
      KwStr(<<"t", "r", "i", "p", ",", "b", "e", "a", "c", "h">>),
      KwStr(<<"s", "e", "a", "s", "o", "n", ":">>),
      KwStr(<<"s", "e", "a", "s", "o", "n", ":", ",", "s", "e", "a", "s", "o", "n", ":", "w", "i", "n", "t", "e", "r">>),
      KwStr(<<"x", "s", "e", "a", "s", "o", "n", ":", "f", "a", "l", "l">>),
      KwList(<<>>),
      KwList(<<ItemStr(<<"S", "e", "a", "s", "o", "n", ":", "F", "a", "l", "l">>)>>),
      KwList(<<ItemStr(<<"t", "r", "i", "p">>), ItemStr(<<"s", "e", "a", "s", "o", "n", ":", "w", "i", "n", "t", "e", "r">>)>>),
      KwList(<<ItemStr(<<"t", "r", "i", "p">>), ItemStr(<<"b", "e", "a", "c", "h">>)>>),
      KwList(<<ItemStr(<<"s", "e", "a", "s", "o", "n", ":">>)>>),
      KwList(<<ItemNum(<<"2", "0", "1", "9">>), ItemStr(<<"s", "e", "a", "s", "o", "n", ":", "w", "i", "n", "t", "e", "r">>)>>),
      KwList(<<ItemStr(<<"s", "e", "a", "s", "o", "n", ":", "w", "i", "n", "t", "e", "r">>), ItemNum(<<"2", "0", "1", "9">>)>>),
      KwList(<<ItemStr(<<"t", "r", "i", "p">>), ItemStr(<<"S", "e", "a", "s", "o", "n", ":", "F", "A", "L", "L">>), ItemStr(<<"s", "e", "a", "s", "o", "n", ":", "w", "i", "n", "t", "e", "r">>)>>) }


\* The metadata records summarized
MetaInputs ==
    { Meta(st, pv, KwNone) : st \in StateValues \cup {<<>>}, pv \in ProvinceValues }
    \cup { Meta(<<>>, <<>>, kw) : kw \in KeywordValues }

SumRest ==
    /\ sumIn = Meta(<<>>, <<>>, KwNone)
    /\ sumOut = NoSummary

SumInit ==
    /\ sumIn \in MetaInputs
    /\ sumOut = NoSummary

\* summarize_meta(meta)
SummarizeMetaCall ==
    /\ sumOut = NoSummary
    /\ sumOut' = SummarizeMeta(sumIn)
    /\ sumIn' = sumIn
    /\ UNCHANGED notSum

SumNext == SummarizeMetaCall

(***************************************************************************)
(*        Derivative cache: make_thumbnail, make_display, handlers         *)
(***************************************************************************)

\* ---- bounds of the derivative model ----
MaxReq        == 2
MaxSrcChanges == 1

\* The request threads of app.run(threaded=True)
ReqThreads == {"t1", "t2"}

\* The thread that answers when requests come one after the other
SeqThreads == {"t1"}

\* IMAGES_DIR, resolved
IMAGES_DIR == << <<"p">> >>

SrcA == IMAGES_DIR \o << <<"a", ".", "j", "p", "g">> >>
SrcB == IMAGES_DIR \o << <<"b", ".", "j", "p", "g">> >>
SrcC == IMAGES_DIR \o << <<"c", ".", "j", "p", "g">> >>
SrcD == IMAGES_DIR \o << <<"d", ".", "j", "p", "g">> >>

\* A symbolic link below the root that points out of it
EscLink   == IMAGES_DIR \o << <<"e", "s", "c", ".", "j", "p", "g">> >>
EscTarget == << <<"e", "t", "c">>, <<"x", ".", "j", "p", "g">> >>

DotDot == <<".", ".">>

\* The (st_mtime_ns, st_size) values a source file takes, one after the other
\* as it is rewritten, and then again from the first
StatValues == << <<12, 3>>, <<2, 3>>, <<1, 23>> >>

\* The values after a rewrite
NextStat(st) ==
    LET i == CHOOSE k \in DOMAIN StatValues : StatValues[k] = st
    IN  StatValues[(i % Len(StatValues)) + 1]

\* A source image: img is "ok", "truncated" (Image.open reads the header, the
\* pixel data fails to decode) or "corrupt" (Image.open fails); long is the
\* larger of width and height.
\* changed records that the file was rewritten since the start.
Source(ex, st, img, long) ==
    [exists |-> ex, mtimeNs |-> st[1], size |-> st[2], img |-> img, long |-> long,
     changed |-> FALSE]

\* The lexical part of (IMAGES_DIR / rel).resolve(): ".." drops a segment
RECURSIVE Normalize(_, _)
Normalize(base, rel) ==
    IF rel = <<>> THEN base
    ELSE IF Head(rel) = DotDot
         THEN Normalize(IF base = <<>> THEN <<>> ELSE SubSeq(base, 1, Len(base) - 1), Tail(rel))
    ELSE Normalize(Append(base, Head(rel)), Tail(rel))

\* (IMAGES_DIR / rel).resolve()
ResolveRel(rel) ==
    LET p == Normalize(IMAGES_DIR, rel)
    IN  IF p = EscLink THEN EscTarget ELSE p

\* src.relative_to(IMAGES_DIR) succeeds
IsUnder(p, rt) == Len(p) >= Len(rt) /\ SubSeq(p, 1, Len(rt)) = rt

\* src.exists()
SrcExists(ss, p) == p \in DOMAIN ss /\ ss[p].exists

\* The outcome of a handler's checks: the status of the abort (0 when the
\* request goes on to make_*), and the arguments of the make_* call
Reject(status) == [status |-> status, src |-> <<>>, param |-> 0, fmt |-> <<>>]
Accept(src, param, fmt) == [status |-> 0, src |-> src, param |-> param, fmt |-> fmt]

\* request.args.get("fmt") or "webp", lower-cased, and the AVIF fallback
RequestFmt(raw, av) ==
    LET f == Lower(IF raw = <<>> THEN WEBP ELSE raw)
    IN  IF f = AVIF /\ ~av THEN WEBP ELSE f

\* thumb(): the lines before make_thumbnail.  A parameter that is not given is <<>>.
ThumbChecks(r, ss, av) ==
    LET wraw == IF r.w = <<>> THEN <<"5", "1", "2">> ELSE r.w
    IN  IF ~IsInt(wraw) THEN Reject(500)
        ELSE IF IntOf(wraw) \notin ThumbSizeSet THEN Reject(400)
        ELSE IF r.path = <<>> THEN Reject(400)
        ELSE IF ~IsUnder(ResolveRel(r.path), IMAGES_DIR) THEN Reject(400)
        ELSE IF ~SrcExists(ss, ResolveRel(r.path)) THEN Reject(404)
        ELSE Accept(ResolveRel(r.path), IntOf(wraw), RequestFmt(r.fmt, av))

\* display(): the lines before make_display
DisplayChecks(r, ss, av) ==
    LET mraw == IF r.w = <<>> THEN Dec(DISPLAY_MAX) ELSE r.w
    IN  IF ~IsInt(mraw) THEN Reject(500)
        ELSE IF r.path = <<>> THEN Reject(400)
        ELSE IF ~IsUnder(ResolveRel(r.path), IMAGES_DIR) THEN Reject(400)
        ELSE IF ~SrcExists(ss, ResolveRel(r.path)) THEN Reject(404)
        ELSE Accept(ResolveRel(r.path), IntOf(mraw), RequestFmt(r.fmt, av))

\* The requests of the model: route, path, w (max for /display) and fmt
RelPaths ==
    { <<>>,
      << <<"a", ".", "j", "p", "g">> >>,
      << <<"b", ".", "j", "p", "g">> >>,
      << DotDot, <<"x", ".", "j", "p", "g">> >>,
      << <<"e", "s", "c", ".", "j", "p", "g">> >> }

Requests ==
    [route : {"thumb"}, path : RelPaths,
     w : {<<>>, <<"2", "5", "6">>, <<"1", "0", "0">>, <<"a", "b", "c">>},
     fmt : {<<>>, <<"A", "V", "I", "F">>}]
    \cup
    [route : {"display"}, path : RelPaths,
     w : {<<>>, <<"a", "b", "c">>},
     fmt : {<<>>, <<"A", "V", "I", "F">>}]

NoReq  == [route |-> "none", path |-> <<>>, w |-> <<>>, fmt |-> <<>>]
NoResp == [status |-> 0, file |-> NoPath, mime |-> "none"]
NoLoc  == [kind |-> "none", src |-> <<>>, param |-> 0, fmt |-> <<>>, mtimeNs |-> 0,
           size |-> 0, dst |-> NoPath, mime |-> "none", created |-> FALSE]

Count(f, p) == IF p \in DOMAIN f THEN f[p] ELSE 0
Inc(f, p)   == (p :> (Count(f, p) + 1)) @@ f

\* A make_* call that returned: its arguments, the source's stat values it read
\* and the path it returned
Call(l) == [kind |-> l.kind, src |-> l.src, param |-> l.param, fmt |-> l.fmt,
            mtimeNs |-> l.mtimeNs, size |-> l.size, dst |-> l.dst]

\* thumb_cache_path / display_cache_path for the call's variant
CachePathOf(kind, src, mtimeNs, size, param, fmt) ==
    IF kind = "thumb" THEN ThumbCachePath(src, mtimeNs, size, param, fmt)
    ELSE DisplayCachePath(src, mtimeNs, size, param, fmt)

\* The mime type of the cache-hit branch
HitMime(fmt) == IF fmt = AVIF THEN "image/avif" ELSE "image/webp"

\* The encoder of the save branch
SaveEnc(fmt, av) == IF fmt = AVIF /\ av THEN "avif" ELSE "webp"

\* The exists-check left out: every call regenerates.
DstExistsSkipped(cache, dst) == FALSE

\* dst.exists()
DstExists(cache, dst) == dst \in DOMAIN cache

DerivRest ==
    /\ avif = FALSE
    /\ srcs = <<>>
    /\ art = <<>>
    /\ dirs = {}
    /\ dpc = <<>>
    /\ loc = <<>>
    /\ req = <<>>
    /\ resp = <<>>
    /\ eff = <<>>
    /\ wbegun = <<>>
    /\ wdone = <<>>
    /\ returned = {}
    /\ reqLeft = 0
    /\ srcLeft = 0

\* The server has started: a.jpg is an image, good or truncated, b.jpg is not
\* there; the cache is empty
ServeInit ==
    /\ avif \in BOOLEAN
    /\ \E img \in {"ok", "truncated"} :
          srcs = (SrcA :> Source(TRUE, <<12, 3>>, img, 2000))
                 @@ (SrcB :> Source(FALSE, <<12, 3>>, "ok", 2000))
    /\ art = <<>>
    /\ dirs = {}
    /\ dpc = [t \in ReqThreads |-> "idle"]
    /\ loc = [t \in ReqThreads |-> NoLoc]
    /\ req = [t \in ReqThreads |-> NoReq]
    /\ resp = [t \in ReqThreads |-> NoResp]
    /\ eff = [t \in ReqThreads |-> {}]
    /\ wbegun = <<>>
    /\ wdone = <<>>
    /\ returned = {}
    /\ reqLeft = MaxReq
    /\ srcLeft = MaxSrcChanges

\* A handler is entered and runs up to its make_* call or its abort
Handle(t, r, out) ==
    /\ dpc[t] = "idle"
    /\ reqLeft > 0
    /\ reqLeft' = reqLeft - 1
    /\ req' = [req EXCEPT ![t] = r]
    /\ eff' = [eff EXCEPT ![t] = {}]
    /\ IF out.status = 0
       THEN /\ dpc' = [dpc EXCEPT ![t] = "mk_lookup"]
            /\ loc' = [loc EXCEPT ![t] = [NoLoc EXCEPT !.kind = r.route, !.src = out.src,
                                                       !.param = out.param, !.fmt = out.fmt]]
            /\ resp' = resp
       ELSE /\ dpc' = [dpc EXCEPT ![t] = "done"]
            /\ loc' = loc
            /\ resp' = [resp EXCEPT ![t] = [NoResp EXCEPT !.status = out.status]]
    /\ UNCHANGED <<avif, srcs, art, dirs, wbegun, wdone, returned, srcLeft>>
    /\ UNCHANGED notDeriv

\* GET /thumb
Thumb(t, r) == r.route = "thumb" /\ Handle(t, r, ThumbChecks(r, srcs, avif))

\* GET /display
Display(t, r) == r.route = "display" /\ Handle(t, r, DisplayChecks(r, srcs, avif))

\* make_*: dst = *_cache_path(...) stats the source; dst.parent.mkdir(...);
\* if dst.exists(): return dst, mime.  The three are one step: what another
\* thread does between them writes either the sources or the cache files, not
\* both, and so can be taken to happen after or before them.
MkLookup(t) ==
    /\ dpc[t] = "mk_lookup"
    /\ IF srcs[loc[t].src].exists
       THEN LET s   == srcs[loc[t].src]
                dst == CachePathOf(loc[t].kind, loc[t].src, s.mtimeNs, s.size,
                                   loc[t].param, loc[t].fmt)
                l   == [loc[t] EXCEPT !.dst = dst, !.mtimeNs = s.mtimeNs, !.size = s.size]
            IN  /\ dirs' = dirs \cup {[dir |-> dst.dir, digest |-> dst.digest]}
                /\ eff' = [eff EXCEPT ![t] = @ \cup {"mkdir"}]
                /\ IF DstExists(art, dst)
                   THEN /\ loc' = [loc EXCEPT ![t] = [l EXCEPT !.mime = HitMime(l.fmt)]]
                        /\ returned' = returned \cup {Call(l)}
                        /\ dpc' = [dpc EXCEPT ![t] = "ret"]
                   ELSE /\ loc' = [loc EXCEPT ![t] = l]
                        /\ returned' = returned
                        /\ dpc' = [dpc EXCEPT ![t] = "mk_open"]
       ELSE /\ dpc' = [dpc EXCEPT ![t] = "raised"]
            /\ UNCHANGED <<loc, dirs, eff, returned>>
    /\ UNCHANGED <<avif, srcs, art, req, resp, wbegun, wdone, reqLeft, srcLeft>>
    /\ UNCHANGED notDeriv

\* make_*: Image.open(src_path), exif_transpose, convert, resize, which raise
\* for a source that does not decode; then im.save(dst, ...) opens dst for
\* writing: the file is there, empty
MkOpen(t) ==
    /\ dpc[t] = "mk_open"
    /\ IF srcs[loc[t].src].exists /\ srcs[loc[t].src].img = "ok"
       THEN /\ art' = (loc[t].dst :> [complete |-> FALSE,
                                       enc |-> SaveEnc(loc[t].fmt, avif),
                                       src |-> loc[t].src]) @@ art
            /\ loc' = [loc EXCEPT ![t].created = loc[t].dst \notin DOMAIN art]
            /\ wbegun' = Inc(wbegun, loc[t].dst)
            /\ eff' = [eff EXCEPT ![t] = @ \cup {"open", "write"}]
            /\ dpc' = [dpc EXCEPT ![t] = "mk_saving"]
       ELSE /\ eff' = [eff EXCEPT ![t] = @ \cup {"open"}]
            /\ dpc' = [dpc EXCEPT ![t] = "raised"]
            /\ UNCHANGED <<art, loc, wbegun>>
    /\ UNCHANGED <<avif, srcs, dirs, req, resp, wdone, returned, reqLeft, srcLeft>>
    /\ UNCHANGED notDeriv

\* make_*: im.save completes; return dst, mime
MkSaveEnd(t) ==
    /\ dpc[t] = "mk_saving"
    /\ art' = IF loc[t].dst \in DOMAIN art
              THEN [art EXCEPT ![loc[t].dst].complete = TRUE]
              ELSE art
    /\ wdone' = Inc(wdone, loc[t].dst)
    /\ loc' = [loc EXCEPT ![t].mime =
                  IF SaveEnc(loc[t].fmt, avif) = "avif" THEN "image/avif" ELSE "image/webp"]
    /\ returned' = returned \cup {Call(loc[t])}
    /\ dpc' = [dpc EXCEPT ![t] = "ret"]
    /\ UNCHANGED <<avif, srcs, dirs, req, resp, eff, wbegun, reqLeft, srcLeft>>
    /\ UNCHANGED notDeriv

\* make_*: the encoder fails while writing; im.save raises.  Pillow removes the
\* file it created, older releases leave it as it is.
MkSaveFail(t, cleanup) ==
    /\ dpc[t] = "mk_saving"
    /\ art' = IF cleanup /\ loc[t].created /\ loc[t].dst \in DOMAIN art
              THEN [p \in DOMAIN art \ {loc[t].dst} |-> art[p]]
              ELSE art
    /\ dpc' = [dpc EXCEPT ![t] = "raised"]
    /\ UNCHANGED <<avif, srcs, dirs, loc, req, resp, eff, wbegun, wdone, returned, reqLeft,
                   srcLeft>>
    /\ UNCHANGED notDeriv

\* thumb() / display(): return send_file(str(dst), mimetype=mime, conditional=True)
HandlerReturn(t) ==
    /\ t \in ReqThreads
    /\ dpc[t] = "ret"
    /\ resp' = [resp EXCEPT ![t] = [status |-> 200, file |-> loc[t].dst, mime |-> loc[t].mime]]
    /\ dpc' = [dpc EXCEPT ![t] = "done"]
    /\ UNCHANGED <<avif, srcs, art, dirs, loc, req, eff, wbegun, wdone, returned, reqLeft,
                   srcLeft>>
    /\ UNCHANGED notDeriv

\* An exception leaves the handler: Flask answers 500
HandlerRaise(t) ==
    /\ t \in ReqThreads
    /\ dpc[t] = "raised"
    /\ resp' = [resp EXCEPT ![t] = [NoResp EXCEPT !.status = 500]]
    /\ dpc' = [dpc EXCEPT ![t] = "done"]
    /\ UNCHANGED <<avif, srcs, art, dirs, loc, req, eff, wbegun, wdone, returned, reqLeft,
                   srcLeft>>
    /\ UNCHANGED notDeriv

\* The response is sent; the thread takes the next request
Finish(t) ==
    /\ dpc[t] = "done"
    /\ dpc' = [dpc EXCEPT ![t] = "idle"]
    /\ loc' = [loc EXCEPT ![t] = NoLoc]
    /\ req' = [req EXCEPT ![t] = NoReq]
    /\ resp' = [resp EXCEPT ![t] = NoResp]
    /\ eff' = [eff EXCEPT ![t] = {}]
    /\ UNCHANGED <<avif, srcs, art, dirs, wbegun, wdone, returned, reqLeft, srcLeft>>
    /\ UNCHANGED notDeriv

\* The environment rewrites a source file: its mtime and size change
SrcRewrite(p) ==
    /\ srcLeft > 0
    /\ srcs[p].exists
    /\ LET st == NextStat(<<srcs[p].mtimeNs, srcs[p].size>>)
       IN  srcs' = [srcs EXCEPT ![p].mtimeNs = st[1], ![p].size = st[2],
                                ![p].changed = TRUE]
    /\ srcLeft' = srcLeft - 1
    /\ UNCHANGED <<avif, art, dirs, dpc, loc, req, resp, eff, wbegun, wdone, returned, reqLeft>>
    /\ UNCHANGED notDeriv

\* Every thread is between requests
AllIdle == \A t \in DOMAIN dpc : dpc[t] = "idle"

\* One request after the other: a request arrives when no other is being answered
ServeSeqNext ==
    \/ \E t \in SeqThreads, r \in Requests : AllIdle /\ Thumb(t, r)
    \/ \E t \in SeqThreads, r \in Requests : AllIdle /\ Display(t, r)
    \/ \E t \in SeqThreads : MkLookup(t)
    \/ \E t \in SeqThreads : MkOpen(t)
    \/ \E t \in SeqThreads : MkSaveEnd(t)
    \/ \E t \in SeqThreads, cleanup \in BOOLEAN : MkSaveFail(t, cleanup)
    \/ \E t \in SeqThreads : HandlerReturn(t)
    \/ \E t \in SeqThreads : HandlerRaise(t)
    \/ \E t \in SeqThreads : Finish(t)
    \/ \E p \in DOMAIN srcs : SrcRewrite(p)

(***************************************************************************)
(*                              prebuild_all                               *)
(***************************************************************************)

\* ---- bound of the prebuild model ----
MaxImages == 2

\* GALLERY_MIN_LONG
MIN_LONG == 1000

\* The threads a pool can start here: the machines of the model have at most
\* two processors
PoolThreads == {"w1", "w2"}

\* os.cpu_count() on the machines of the model
CpuCounts == {1, 2}

\* max_workers=min(8, os.cpu_count() or 4)
MaxWorkers(c) == IF c < 8 THEN c ELSE 8

\* The idle workers are alike; the one that takes a call is the first of them
\* in this order
PoolOrder == <<"w1", "w2">>

\* The formats of the loop of work
Formats(build, av) == IF build /\ av THEN <<AVIF, WEBP>> ELSE <<WEBP>>

MkCall(kind, param, fmt) == [kind |-> kind, param |-> param, fmt |-> fmt]

\* The calls of work without make_display.
RECURSIVE JobsNoDisplay(_, _, _)
JobsNoDisplay(sizes, maxLong, fmts) ==
    IF fmts = <<>> THEN <<>>
    ELSE [i \in 1..Len(sizes) |-> MkCall("thumb", sizes[i], Head(fmts))]
         \o JobsNoDisplay(sizes, maxLong, Tail(fmts))

\* The calls of work, in order: for each format, make_thumbnail for each size
\* and then make_display
RECURSIVE Jobs(_, _, _)
Jobs(sizes, maxLong, fmts) ==
    IF fmts = <<>> THEN <<>>
    ELSE [i \in 1..Len(sizes) |-> MkCall("thumb", sizes[i], Head(fmts))]
         \o << MkCall("display", maxLong, Head(fmts)) >>
         \o Jobs(sizes, maxLong, Tail(fmts))

NoWork == [idx |-> 0, jobs |-> <<>>, made |-> 0]

\* A future of ex.map: its state, its result, and how many times a worker
\* has taken its call
Future(state, n, takes) == [state |-> state, n |-> n, takes |-> takes]

\* The sources of the run: a.jpg large and truncated, b.jpg a good large
\* image, c.jpg a good small one, d.jpg not an image
PrebuildSources ==
    (SrcA :> Source(TRUE, <<12, 3>>, "truncated", 2000))
    @@ (SrcB :> Source(TRUE, <<12, 3>>, "ok", 2000))
    @@ (SrcC :> Source(TRUE, <<12, 3>>, "ok", 800))
    @@ (SrcD :> Source(TRUE, <<12, 3>>, "corrupt", 0))

\* The sources in the order of scan_images
ScanOrder == <<SrcA, SrcB, SrcC, SrcD>>

\* The inventories main passes: results of scan_images, which are lists of
\* different paths in sorted order
Inventories ==
    { [i \in DOMAIN s |-> ScanOrder[s[i]]] :
        s \in { q \in UNION { [1..n -> DOMAIN ScanOrder] : n \in 1..MaxImages } :
                  \A i \in 1..Len(q), j \in 1..Len(q) : i < j => q[i] < q[j] } }

PreRest ==
    /\ images = <<>>
    /\ buildAvif = FALSE
    /\ cpus = 0
    /\ fut = <<>>
    /\ wk = <<>>
    /\ ppos = 0
    /\ total = 0
    /\ pstate = "rest"

\* The cache an earlier prebuild of b.jpg in WebP has left
PriorCache ==
    LET s == PrebuildSources[SrcB]
        jobs == Jobs(THUMB_SIZES, DISPLAY_MAX, <<WEBP>>)
        paths == { CachePathOf(jobs[i].kind, SrcB, s.mtimeNs, s.size, jobs[i].param,
                               jobs[i].fmt) : i \in DOMAIN jobs }
    IN  [p \in paths |-> [complete |-> TRUE, enc |-> SaveEnc(WEBP, FALSE), src |-> SrcB]]

\* prebuild_all has called ex.map(work, images): every call of work is
\* submitted, none has started; the cache is empty or holds what an earlier
\* prebuild has written
PrebuildInit ==
    /\ avif \in BOOLEAN
    /\ buildAvif \in BOOLEAN
    /\ cpus \in CpuCounts
    /\ images \in Inventories
    /\ srcs = PrebuildSources
    /\ art \in {<<>>, PriorCache}
    /\ dirs = {}
    /\ dpc = [t \in PoolThreads |-> "idle"]
    /\ loc = [t \in PoolThreads |-> NoLoc]
    /\ req = <<>>
    /\ resp = <<>>
    /\ eff = [t \in PoolThreads |-> {}]
    /\ wbegun = <<>>
    /\ wdone = <<>>
    /\ returned = {}
    /\ reqLeft = 0
    /\ srcLeft = MaxSrcChanges
    /\ fut = [i \in 1..Len(images) |-> Future("pending", 0, 0)]
    /\ wk = [t \in PoolThreads |-> NoWork]
    /\ ppos = 1
    /\ total = 0
    /\ pstate = "running"

\* The indices of the futures no worker has taken
Pending == {i \in DOMAIN fut : fut[i].state = "pending"}

\* A worker of the pool takes the next call of work from the queue; the pool
\* has max_workers threads
WorkTake(t) ==
    /\ dpc[t] = "idle"
    /\ \E k \in 1..MaxWorkers(cpus) : k \in DOMAIN PoolOrder /\ PoolOrder[k] = t
    /\ \A j \in DOMAIN PoolOrder, k \in DOMAIN PoolOrder :
          (PoolOrder[k] = t /\ j < k) => dpc[PoolOrder[j]] # "idle"
    /\ Pending # {}
    /\ LET i == CHOOSE i \in Pending : \A j \in Pending : i <= j
       IN  /\ fut' = [fut EXCEPT ![i].state = "running", ![i].takes = @ + 1]
           /\ wk' = [wk EXCEPT ![t] = [NoWork EXCEPT !.idx = i]]
    /\ dpc' = [dpc EXCEPT ![t] = "probe"]
    /\ eff' = [eff EXCEPT ![t] = {}]
    /\ UNCHANGED <<avif, srcs, art, dirs, loc, req, resp, wbegun, wdone, returned, reqLeft,
                   srcLeft>>
    /\ UNCHANGED <<images, buildAvif, cpus, ppos, total, pstate>>
    /\ UNCHANGED notServe

\* work: the size check in try/except; return 0 for a source that cannot be
\* opened or is smaller than MIN_LONG; else the first make_thumbnail call
WorkProbe(t) ==
    /\ dpc[t] = "probe"
    /\ LET s    == srcs[images[wk[t].idx]]
           jobs == Jobs(THUMB_SIZES, DISPLAY_MAX, Formats(buildAvif, avif))
       IN  IF ~s.exists \/ s.img = "corrupt" \/ s.long < MIN_LONG
           THEN /\ fut' = [fut EXCEPT ![wk[t].idx] = Future("done", 0, @.takes)]
                /\ wk' = [wk EXCEPT ![t] = NoWork]
                /\ dpc' = [dpc EXCEPT ![t] = "idle"]
                /\ loc' = loc
           ELSE /\ wk' = [wk EXCEPT ![t].jobs = Tail(jobs)]
                /\ loc' = [loc EXCEPT ![t] =
                              [NoLoc EXCEPT !.kind = Head(jobs).kind,
                                            !.src = images[wk[t].idx],
                                            !.param = Head(jobs).param,
                                            !.fmt = Head(jobs).fmt]]
                /\ dpc' = [dpc EXCEPT ![t] = "mk_lookup"]
                /\ fut' = fut
    /\ UNCHANGED <<avif, srcs, art, dirs, req, resp, eff, wbegun, wdone, returned, reqLeft,
                   srcLeft>>
    /\ UNCHANGED <<images, buildAvif, cpus, ppos, total, pstate>>
    /\ UNCHANGED notServe

\* work: a make_* call has returned: made += 1, and the next call, or return made
WorkCallReturned(t) ==
    /\ t \in PoolThreads
    /\ dpc[t] = "ret"
    /\ IF wk[t].jobs = <<>>
       THEN /\ fut' = [fut EXCEPT ![wk[t].idx] = Future("done", wk[t].made + 1, @.takes)]
            /\ wk' = [wk EXCEPT ![t] = NoWork]
            /\ loc' = [loc EXCEPT ![t] = NoLoc]
            /\ dpc' = [dpc EXCEPT ![t] = "idle"]
       ELSE /\ wk' = [wk EXCEPT ![t].made = @ + 1, ![t].jobs = Tail(@)]
            /\ loc' = [loc EXCEPT ![t] =
                          [NoLoc EXCEPT !.kind = Head(wk[t].jobs).kind,
                                        !.src = images[wk[t].idx],
                                        !.param = Head(wk[t].jobs).param,
                                        !.fmt = Head(wk[t].jobs).fmt]]
            /\ dpc' = [dpc EXCEPT ![t] = "mk_lookup"]
            /\ fut' = fut
    /\ UNCHANGED <<avif, srcs, art, dirs, req, resp, eff, wbegun, wdone, returned, reqLeft,
                   srcLeft>>
    /\ UNCHANGED <<images, buildAvif, cpus, ppos, total, pstate>>
    /\ UNCHANGED notServe

\* work: a make_* call has raised; nothing in work catches it, the future
\* holds the exception
WorkRaised(t) ==
    /\ t \in PoolThreads
    /\ dpc[t] = "raised"
    /\ fut' = [fut EXCEPT ![wk[t].idx] = Future("raised", 0, @.takes)]
    /\ wk' = [wk EXCEPT ![t] = NoWork]
    /\ loc' = [loc EXCEPT ![t] = NoLoc]
    /\ dpc' = [dpc EXCEPT ![t] = "idle"]
    /\ UNCHANGED <<avif, srcs, art, dirs, req, resp, eff, wbegun, wdone, returned, reqLeft,
                   srcLeft>>
    /\ UNCHANGED <<images, buildAvif, cpus, ppos, total, pstate>>
    /\ UNCHANGED notServe

\* prebuild_all: for n in ex.map(work, images): total += n
MapYield ==
    /\ pstate = "running"
    /\ ppos <= Len(images)
    /\ fut[ppos].state = "done"
    /\ total' = total + fut[ppos].n
    /\ ppos' = ppos + 1
    /\ UNCHANGED <<images, buildAvif, cpus, fut, wk, pstate>>
    /\ UNCHANGED derivVars
    /\ UNCHANGED notServe

\* prebuild_all: the result awaited is an exception: the iterator of ex.map
\* re-raises it and cancels the futures not started; leaving the with block,
\* the executor waits for the calls that are running
MapRaise ==
    /\ pstate = "running"
    /\ ppos <= Len(images)
    /\ fut[ppos].state = "raised"
    /\ fut' = [i \in DOMAIN fut |->
                  IF fut[i].state = "pending" THEN Future("cancelled", 0, fut[i].takes)
                  ELSE fut[i]]
    /\ pstate' = "raising"
    /\ UNCHANGED <<images, buildAvif, cpus, wk, ppos, total>>
    /\ UNCHANGED derivVars
    /\ UNCHANGED notServe

\* prebuild_all: the executor has shut down; the exception leaves prebuild_all
PrebuildRaised ==
    /\ pstate = "raising"
    /\ \A t \in PoolThreads : dpc[t] = "idle"
    /\ pstate' = "raised"
    /\ UNCHANGED <<images, buildAvif, cpus, fut, wk, ppos, total>>
    /\ UNCHANGED derivVars
    /\ UNCHANGED notServe

\* prebuild_all: every result is consumed; "Prebuild done. Items generated: total"
PrebuildDone ==
    /\ pstate = "running"
    /\ ppos > Len(images)
    /\ pstate' = "returned"
    /\ UNCHANGED <<images, buildAvif, cpus, fut, wk, ppos, total>>
    /\ UNCHANGED derivVars
    /\ UNCHANGED notServe

PrebuildNext ==
    \/ \E t \in PoolThreads : WorkTake(t)
    \/ \E t \in PoolThreads : WorkProbe(t)
    \/ \E t \in PoolThreads : MkLookup(t)
    \/ \E t \in PoolThreads : MkOpen(t)
    \/ \E t \in PoolThreads : MkSaveEnd(t)
    \/ \E t \in PoolThreads, cleanup \in BOOLEAN : MkSaveFail(t, cleanup)
    \/ \E t \in PoolThreads : WorkCallReturned(t)
    \/ \E t \in PoolThreads : WorkRaised(t)
    \/ MapYield
    \/ MapRaise
    \/ PrebuildRaised
    \/ PrebuildDone
    \/ \E i \in DOMAIN images : SrcRewrite(images[i])

(***************************************************************************)
(*       make_thumbnail and make_display called from several threads       *)
(***************************************************************************)

\* The calls made: make_thumbnail(src, 256, fmt) and make_display(src, DISPLAY_MAX, fmt)
MakeCalls ==
    { MkCall("thumb", THUMB_SIZES[1], AVIF), MkCall("thumb", THUMB_SIZES[1], WEBP),
      MkCall("display", DISPLAY_MAX, AVIF) }

\* Threads are about to call make_*: a.jpg is a good image, the cache is empty
MakeInit ==
    /\ avif \in BOOLEAN
    /\ srcs = (SrcA :> Source(TRUE, StatValues[1], "ok", 2000))
    /\ art = <<>>
    /\ dirs = {}
    /\ dpc = [t \in ReqThreads |-> "idle"]
    /\ loc = [t \in ReqThreads |-> NoLoc]
    /\ req = <<>>
    /\ resp = <<>>
    /\ eff = [t \in ReqThreads |-> {}]
    /\ wbegun = <<>>
    /\ wdone = <<>>
    /\ returned = {}
    /\ reqLeft = MaxReq
    /\ srcLeft = MaxSrcChanges

\* A thread calls make_thumbnail or make_display
MakeCall(t, c) ==
    /\ dpc[t] = "idle"
    /\ reqLeft > 0
    /\ reqLeft' = reqLeft - 1
    /\ loc' = [loc EXCEPT ![t] = [NoLoc EXCEPT !.kind = c.kind, !.src = SrcA,
                                               !.param = c.param, !.fmt = c.fmt]]
    /\ eff' = [eff EXCEPT ![t] = {}]
    /\ dpc' = [dpc EXCEPT ![t] = "mk_lookup"]
    /\ UNCHANGED <<avif, srcs, art, dirs, req, resp, wbegun, wdone, returned, srcLeft>>
    /\ UNCHANGED notDeriv

\* The caller has the result, or the exception, of its call
MakeLeave(t) ==
    /\ dpc[t] \in {"ret", "raised"}
    /\ dpc' = [dpc EXCEPT ![t] = "idle"]
    /\ loc' = [loc EXCEPT ![t] = NoLoc]
    /\ eff' = [eff EXCEPT ![t] = {}]
    /\ UNCHANGED <<avif, srcs, art, dirs, req, resp, wbegun, wdone, returned, reqLeft,
                   srcLeft>>
    /\ UNCHANGED notDeriv

\* The environment removes a file of the cache
ArtifactLost(p) ==
    /\ srcLeft > 0
    /\ p \in DOMAIN art
    /\ art' = [q \in DOMAIN art \ {p} |-> art[q]]
    /\ srcLeft' = srcLeft - 1
    /\ UNCHANGED <<avif, srcs, dirs, dpc, loc, req, resp, eff, wbegun, wdone, returned,
                   reqLeft>>
    /\ UNCHANGED notDeriv

MakeNext ==
    \/ \E t \in ReqThreads, c \in MakeCalls : MakeCall(t, c)
    \/ \E t \in ReqThreads : MkLookup(t)
    \/ \E t \in ReqThreads : MkOpen(t)
    \/ \E t \in ReqThreads : MkSaveEnd(t)
    \/ \E t \in ReqThreads, cleanup \in BOOLEAN : MkSaveFail(t, cleanup)
    \/ \E t \in ReqThreads : MakeLeave(t)
    \/ \E p \in DOMAIN srcs : SrcRewrite(p)
    \/ \E p \in DOMAIN art : ArtifactLost(p)

(***************************************************************************)
(*                           Specifications                                *)
(***************************************************************************)

\* The metadata cache under concurrent requests and file changes
InitCache ==
    /\ CacheInit
    /\ ScanRest
    /\ KeyRest
    /\ DerivRest
    /\ PreRest
    /\ SumRest
    /\ LockRest

SpecCache == InitCache /\ [][CacheNext]_vars

\* One call of scan_images
InitScan ==
    /\ ScanInit
    /\ CacheRest /\ ttl = 0 /\ envLeft = 0
    /\ fsys = [p \in RealPaths |-> [exists |-> TRUE, mtime |-> 1]]
    /\ KeyRest
    /\ DerivRest
    /\ PreRest
    /\ SumRest
    /\ LockRest

SpecScan == InitScan /\ [][ScanNext]_vars

\* Two cache paths computed for two requests
InitKey ==
    /\ KeyInit
    /\ CacheRest /\ ttl = 0 /\ envLeft = 0
    /\ fsys = [p \in RealPaths |-> [exists |-> TRUE, mtime |-> 1]]
    /\ ScanRest
    /\ DerivRest
    /\ PreRest
    /\ SumRest
    /\ LockRest

SpecKey == InitKey /\ [][KeyNext]_vars

\* The handlers answering one request after the other
InitServe ==
    /\ ServeInit
    /\ CacheRest /\ ttl = 0 /\ envLeft = 0
    /\ fsys = [p \in RealPaths |-> [exists |-> TRUE, mtime |-> 1]]
    /\ ScanRest
    /\ KeyRest
    /\ PreRest
    /\ SumRest
    /\ LockRest

SpecServeSeq == InitServe /\ [][ServeSeqNext]_vars

\* main() with --prebuild: the inventory is handed to prebuild_all
InitPrebuild ==
    /\ PrebuildInit
    /\ CacheRest /\ ttl = 0 /\ envLeft = 0
    /\ fsys = [p \in RealPaths |-> [exists |-> TRUE, mtime |-> 1]]
    /\ ScanRest
    /\ KeyRest
    /\ SumRest
    /\ LockRest

SpecPrebuild == InitPrebuild /\ [][PrebuildNext]_vars

\* make_thumbnail and make_display called from two threads at a time
InitMake ==
    /\ MakeInit
    /\ CacheRest /\ ttl = 0 /\ envLeft = 0
    /\ fsys = [p \in RealPaths |-> [exists |-> TRUE, mtime |-> 1]]
    /\ ScanRest
    /\ KeyRest
    /\ PreRest
    /\ SumRest
    /\ LockRest

SpecMake == InitMake /\ [][MakeNext]_vars

\* summarize_meta applied to one metadata record
InitSum ==
    /\ SumInit
    /\ CacheRest /\ ttl = 0 /\ envLeft = 0
    /\ fsys = [p \in RealPaths |-> [exists |-> TRUE, mtime |-> 1]]
    /\ ScanRest
    /\ KeyRest
    /\ DerivRest
    /\ PreRest
    /\ LockRest

SpecSum == InitSum /\ [][SumNext]_vars

\* The metadata cache with the steps of taking and releasing its lock
InitLock ==
    /\ LockInit
    /\ ScanRest
    /\ KeyRest
    /\ DerivRest
    /\ PreRest
    /\ SumRest

SpecLock == InitLock /\ [][LockNext]_vars

\* The step of thread t that is its MetaCache.get call.
IsGetStep(t) == pc[t] = "idle" /\ pc'[t] # "idle"

\* An entry is valid: the file exists, its modification time is the stored one,
\* and the entry is no older than the ttl (a ttl of 0 never expires).
EntryValid(p) ==
    /\ mc[p].present
    /\ fsys[p].exists
    /\ fsys[p].mtime = mc[p].mtime
    /\ (ttl = 0 \/ now - mc[p].ts <= ttl)

\* C1: MetaCache.get returns the cached record exactly when an entry exists for
\* the resolved path, the file exists, its modification time equals the stored
\* one and (ttl = 0 or now - ts <= ttl), leaving the mapping alone; otherwise it
\* returns absent and no entry for the path remains in the mapping.
C1_GetReturnsIffValid ==
    [][\A t \in Threads :
          IsGetStep(t) =>
             LET p == Resolve(arg'[t])
             IN  IF EntryValid(p)
                 THEN meta'[t] = mc[p].data /\ mc' = mc
                 ELSE /\ meta'[t] = None
                      /\ ~mc'[p].present
                      /\ \A q \in RealPaths \ {p} : mc'[q] = mc[q]]_vars

\* A get that hit an entry exactly ttl old, through the symlink alias.
C1_Witness ==
    \E t \in Threads :
       /\ pc[t] = "summarize"
       /\ meta[t].some
       /\ arg[t] = "l1"
       /\ ttl > 0
       /\ mc["f1"].present
       /\ now - mc["f1"].ts = ttl

\* C2: a record MetaCache.get returns was extracted from the file while it had
\* the modification time it has at the moment of the get.
C2_GetNeverStale ==
    [][\A t \in Threads :
          (IsGetStep(t) /\ meta'[t].some /\ meta'[t].ok) =>
             meta'[t].exMtime = fsys[Resolve(arg'[t])].mtime]_vars


\* The step of thread t that ends its MetaCache.set call at the failed stat
IsDroppedSet(t) ==
    pc[t] = "set_stat" /\ pc'[t] # "set_stat" /\ ~fsys[Resolve(arg[t])].exists

\* The step of thread t is inside a MetaCache.get or MetaCache.set call
IsCacheCall(t) == pc[t] \in {"idle", "set_stat", "set_write"} /\ pc'[t] # pc[t]

\* C14: MetaCache.set on a path whose file cannot be stat-ed returns without
\* an error and leaves the whole mapping as it was, an entry stored before for
\* that path included; and a get or set on one path changes the entry of no
\* other path.
C14_DroppedSetAndFrame ==
    [][ /\ \A t \in Threads :
              IsDroppedSet(t) => (mc' = mc /\ pc'[t] = "summarize")
        /\ \A q \in RealPaths :
              mc'[q] # mc[q] =>
                 \E t \in Threads : IsCacheCall(t) /\ Resolve(arg'[t]) = q ]_vars

\* C14 witness: a set was dropped for a file that is gone (the record extracted
\* is the empty one) while the mapping holds an entry stored before for the path.
C14_Witness ==
    \E t \in Threads :
       /\ pc[t] = "summarize"
       /\ meta[t] = EmptyMeta
       /\ ~fsys[Resolve(arg[t])].exists
       /\ mc[Resolve(arg[t])].present
       /\ mc[Resolve(arg[t])].data.ok

\* The threads inside the with self._lock block of get or of set
InsideLock == {t \in Threads : pc[t] \in {"get_in", "set_in"}}

\* Every thread has finished its request for the file
AllFinished == \A u \in Threads : pc[u] \in {"idle", "summarize"}

\* C15: a thread inside a get body or a set write holds the lock, so that no
\* two threads are inside at a time and the mapping changes only under the
\* lock; and when threads that missed on the same unchanged file have each run
\* extract-then-set and all have finished, the mapping holds the entry of that
\* path with the record extracted, and a get (within the ttl) returns it.
C15_LockedAndConverges ==
    /\ \A t \in InsideLock : lock = t
    /\ \A t \in Threads :
          (AllFinished /\ pc[t] = "summarize" /\ smt[t] # 0) =>
             LET p == Resolve(arg[t])
             IN  /\ mc[p].present
                 /\ mc[p].data = GetExifMetadata(fsys, arg[t])
                 /\ mc[p].data = meta[t]
                 /\ ~TtlExpired(ttl, now, mc[p].ts) =>
                       MetaCacheGet(mc, arg[t], fsys, ttl, now).ret = meta[t]

\* C15 witness: two threads missed on the same file at the same time (the ttl
\* is off, so the second get came before the first set), one through the
\* symlink alias, and both have run extract-then-set.
C15_Witness ==
    /\ ttl = 0
    /\ pc["t1"] = "summarize" /\ pc["t2"] = "summarize"
    /\ smt["t1"] # 0 /\ smt["t2"] # 0
    /\ arg["t1"] = "f1" /\ arg["t2"] = "l1"
\* The result of the scan, once scan_images has returned.
Done == sphase = "done"

\* C3: the list scan_images returns has no two entries with the same
\* lower-cased resolved path, no two entries with the same (inode, device) pair
\* when stat succeeds for both, and is in ascending order of the lower-cased
\* path string.
C3_ScanDedupSorted ==
    Done =>
       /\ \A i, j \in 1..Len(files) :
             i # j => Lower(PathStr(files[i])) # Lower(PathStr(files[j]))
       /\ \A i, j \in 1..Len(files) :
             (i # j /\ Stat(tree, root, files[i]) # StatFails
                    /\ Stat(tree, root, files[j]) # StatFails)
                => Stat(tree, root, files[i]) # Stat(tree, root, files[j])
       /\ \A i \in 1..(Len(files) - 1) :
             StrLess(Lower(PathStr(files[i])), Lower(PathStr(files[i + 1])))

\* A file with a symlink alias and a hard-linked pair gave one entry each.
C3_Witness ==
    /\ Done
    /\ root = << <<"p">> >>
    /\ \E a, l, y, z \in tree :
          /\ a.ino = 1 /\ l.link # <<>> /\ ResolveEntry(root, l) = EntryPath(root, a)
          /\ y.ino = 6 /\ z.ino = 6 /\ y # z
    /\ Cardinality({i \in 1..Len(files) : Stat(tree, root, files[i]) = <<1, 1>>}) = 1
    /\ Cardinality({i \in 1..Len(files) : Stat(tree, root, files[i]) = <<6, 1>>}) = 1

\* The name is, by the ignore rules read below the root, a kept image: a
\* recognized extension, no ignore glob, no ignored directory below the root.
KeptBelowRoot(d, n) ==
    /\ Lower(Suffix(n)) \in DEFAULT_EXTS
    /\ ~GlobIgnored(n)
    /\ \A i \in 1..Len(d) : Lower(d[i]) \notin IgnoreDirsLower

\* C4: whatever the root's ancestors are called, scan_images returns exactly
\* one entry for each underlying file below the root that is a kept image, and
\* no entry that matches an ignore glob or lies in an ignored directory.
C4_ScanExactlyKept ==
    Done =>
       /\ \A e \in tree :
             (e.link = <<>> /\ KeptBelowRoot(e.dir, e.name)) =>
                Cardinality({i \in 1..Len(files) :
                                Stat(tree, root, files[i]) = <<e.ino, 1>>}) = 1
       /\ \A i \in 1..Len(files) : \A e \in tree :
             (e.link = <<>> /\ EntryPath(root, e) = files[i]) => KeptBelowRoot(e.dir, e.name)

\* C5: of the entries that denote one underlying file, scan_images keeps the
\* one that comes first in lower-cased path order.
C5_KeepsFirstInPathOrder ==
    Done =>
       \A i \in 1..Len(files) : \A e \in tree :
          LET rp == ResolveEntry(root, e)
          IN  ( /\ KeptBelowRoot(e.dir, e.name)
                /\ \/ Lower(PathStr(rp)) = Lower(PathStr(files[i]))
                   \/ /\ Stat(tree, root, rp) # StatFails
                      /\ Stat(tree, root, rp) = Stat(tree, root, files[i]) )
              => ~StrLess(Lower(PathStr(rp)), Lower(PathStr(files[i])))

\* With no ignored name among the root's own segments the statement of C4 holds.
C4_WhenRootNotIgnored ==
    (\A i \in 1..Len(root) : Lower(root[i]) \notin IgnoreDirsLower) => C4_ScanExactlyKept

\* C6: the key is deterministic and sensitive to every component: equal inputs
\* hash the same bytes, and two inputs for one source that differ in mtime,
\* size, variant kind, size parameter or format hash different bytes.
C6_KeyDeterministicAndSensitive ==
    (keyOut # <<>> /\ keyOut[1] # NoPath /\ keyOut[2] # NoPath) =>
       /\ keyIn[1] = keyIn[2] => keyOut[1] = keyOut[2]
       /\ (keyIn[1].src = keyIn[2].src /\ keyIn[1] # keyIn[2])
             => keyOut[1].digest # keyOut[2].digest

\* The bytes are the same for equal inputs, and differ when one source's inputs
\* differ in the variant kind, the size parameter or the format, or in exactly
\* one of mtime and size.
C6_SensitiveToOneChange ==
    (keyOut # <<>> /\ keyOut[1] # NoPath /\ keyOut[2] # NoPath) =>
       /\ keyIn[1] = keyIn[2] => keyOut[1] = keyOut[2]
       /\ ( /\ keyIn[1].src = keyIn[2].src
            /\ \/ keyIn[1].kind # keyIn[2].kind
               \/ keyIn[1].param # keyIn[2].param
               \/ keyIn[1].fmt # keyIn[2].fmt
               \/ (keyIn[1].mtimeNs # keyIn[2].mtimeNs) # (keyIn[1].size # keyIn[2].size) )
             => keyOut[1].digest # keyOut[2].digest

(***************************************************************************)
(*                     Claims on the derivative cache                      *)
(***************************************************************************)

\* The cache paths that make_* calls have returned
ReturnedPaths == {c.dst : c \in returned}

SameCall(a, b) ==
    /\ a.kind = b.kind /\ a.src = b.src /\ a.param = b.param /\ a.fmt = b.fmt
    /\ a.mtimeNs = b.mtimeNs /\ a.size = b.size

\* C7: derivative generation is idempotent over sequential calls.  Two calls
\* with the same arguments on a source with the same path, mtime and size
\* return the same artifact path; and once a call has returned a path, no later
\* step opens that artifact for writing or changes it, so that the artifact is
\* written to completion once.
C7_MakeIdempotent ==
    [][ /\ \A a \in returned', b \in returned' : SameCall(a, b) => a.dst = b.dst
        /\ \A p \in ReturnedPaths :
              /\ Count(wbegun', p) = Count(wbegun, p)
              /\ Count(wdone', p) = Count(wdone, p)
              /\ p \in DOMAIN art /\ p \in DOMAIN art' /\ art'[p] = art[p]
        /\ \A p \in DOMAIN wdone' : wdone'[p] <= 1 ]_vars

\* C7 witness: a call has generated an artifact, and a later call with the same
\* arguments on the unchanged source has returned its path without writing.
C7_Witness ==
    \E t \in ReqThreads :
        /\ dpc[t] = "ret"
        /\ "write" \notin eff[t]
        /\ Count(wdone, loc[t].dst) = 1
        /\ Call(loc[t]) \in returned
        /\ srcs[loc[t].src].mtimeNs = loc[t].mtimeNs
        /\ srcs[loc[t].src].size = loc[t].size

\* The w parameter of a /thumb request as thumb() reads it
EdgeRaw(r) == IF r.w = <<>> THEN <<"5", "1", "2">> ELSE r.w

\* The edge length of a /thumb request is a number that is not in the allowed set
EdgeNotAllowed(r) == IsInt(EdgeRaw(r)) /\ IntOf(EdgeRaw(r)) \notin ThumbSizeSet

\* The path of a request resolves outside the images root
OutsideRoot(r) == r.path # <<>> /\ ~IsUnder(ResolveRel(r.path), IMAGES_DIR)

\* C8: a /thumb request whose edge length is not in {256, 512, 1024}, or whose
\* path resolves outside the images root, is answered 400, and it creates no
\* cache directory, writes no artifact and opens no source image.
C8_BadThumbRequestIs400 ==
    \A t \in ReqThreads :
        (dpc[t] = "done" /\ req[t].route = "thumb"
            /\ (EdgeNotAllowed(req[t]) \/ OutsideRoot(req[t])))
        => (resp[t].status = 400 /\ eff[t] = {})

\* What does hold of such a request, and of one whose w is not a number: it has
\* no effect on the cache or the sources, and it is answered 400 when w is a
\* number, 500 when it is not.
C8_RejectedWithoutEffect ==
    \A t \in ReqThreads :
        (dpc[t] = "done" /\ req[t].route = "thumb"
            /\ (~IsInt(EdgeRaw(req[t])) \/ EdgeNotAllowed(req[t]) \/ OutsideRoot(req[t])))
        => /\ eff[t] = {}
           /\ resp[t].status = (IF IsInt(EdgeRaw(req[t])) THEN 400 ELSE 500)

(***************************************************************************)
(*                         Claims on prebuild_all                          *)
(***************************************************************************)

\* C9: in prebuild_all a failure while processing one source, at any step,
\* make_thumbnail and make_display included, is contained: no call of work
\* ends by an exception, no call of work is cancelled, and the pass does not
\* end by an exception.
C9_FailureContained ==
    /\ \A i \in DOMAIN fut : fut[i].state \notin {"raised", "cancelled"}
    /\ pstate \notin {"raising", "raised"}

RECURSIVE SumN(_, _)
SumN(f, n) == IF n = 0 THEN 0 ELSE f[n].n + SumN(f, n - 1)

\* What does hold: a source that cannot be opened, or is small, counts zero;
\* and a pass that returns has processed every source and totals their counts.
C9_ProbeFailureContained ==
    /\ \A i \in DOMAIN fut :
          (fut[i].state = "done"
              /\ (srcs[images[i]].img = "corrupt" \/ srcs[images[i]].long < MIN_LONG))
          => fut[i].n = 0
    /\ pstate = "returned" =>
          /\ \A i \in DOMAIN fut : fut[i].state = "done"
          /\ total = SumN(fut, Len(fut))

\* The path of a source relative to IMAGES_DIR, as a request names it
RelOf(p) == SubSeq(p, Len(IMAGES_DIR) + 1, Len(p))

\* A /thumb request for the source passes the checks of thumb(), and the
\* artifact make_thumbnail looks for is in the cache
ThumbHit(p, w, f) ==
    LET out == ThumbChecks([route |-> "thumb", path |-> RelOf(p), w |-> Dec(w), fmt |-> f],
                           srcs, avif)
    IN  /\ out.status = 0
        /\ ThumbCachePath(out.src, srcs[out.src].mtimeNs, srcs[out.src].size,
                          out.param, out.fmt) \in DOMAIN art

\* The same for /display
DisplayHit(p, maxLong, f) ==
    LET out == DisplayChecks([route |-> "display", path |-> RelOf(p), w |-> Dec(maxLong),
                              fmt |-> f], srcs, avif)
    IN  /\ out.status = 0
        /\ DisplayCachePath(out.src, srcs[out.src].mtimeNs, srcs[out.src].size,
                            out.param, out.fmt) \in DOMAIN art

\* The formats a pass builds
BuiltFormats == IF buildAvif /\ avif THEN {AVIF, WEBP} ELSE {WEBP}

CreatedByPass == DOMAIN wdone

\* C18: the count prebuild_all reports when it returns is the number of
\* artifact files the pass has created, whatever the cache held before; over
\* a cache an earlier pass has filled it creates nothing and reports zero.
C18_CountIsFilesCreated ==
    pstate = "returned" => total = Cardinality(CreatedByPass)

\* What does hold: the count is the number of make_* calls that returned,
\* cache hits included.
C18_CountIsCallsReturned ==
    pstate = "returned" => total = Cardinality(returned)

\* The calls of work a worker is running
Running == {i \in DOMAIN fut : fut[i].state = "running"}

\* C19: at every moment of prebuild_all the number of sources being processed
\* is at most min(8, cpu count), whatever the length of the inventory; and
\* every source of the inventory is handed to a worker exactly once: never
\* twice, and once when the pass has ended.
C19_CeilingAndExactlyOnce ==
    /\ Cardinality(Running) <= (IF cpus < 8 THEN cpus ELSE 8)
    /\ \A i \in DOMAIN fut : fut[i].takes <= 1
    /\ pstate \in {"returned", "raised"} => \A i \in DOMAIN fut : fut[i].takes = 1

\* What does hold: the ceiling, at most once, and exactly once in a pass that
\* returns.
C19_CeilingAndAtMostOnce ==
    /\ Cardinality(Running) <= (IF cpus < 8 THEN cpus ELSE 8)
    /\ \A i \in DOMAIN fut : fut[i].takes <= 1
    /\ pstate = "returned" => \A i \in DOMAIN fut : fut[i].takes = 1

\* The ceiling is met: more sources than workers, every worker busy, a
\* source waiting
C19_CeilingReached ==
    /\ Len(images) > cpus
    /\ Cardinality(Running) = cpus
    /\ Pending # {}
(***************************************************************************)
(*             Claims on make_thumbnail and make_display                   *)
(***************************************************************************)

\* The mime type of an encoding
EncMime(enc) == IF enc = "avif" THEN "image/avif" ELSE "image/webp"

\* C11: when the AVIF encoder is unavailable and format avif is asked for, a
\* make_thumbnail or make_display call that returns has a WebP artifact and
\* reports image/webp, on the generating call and on every later cache hit.
C11_FallbackMimeMatches ==
    \A t \in DOMAIN dpc :
        (dpc[t] = "ret" /\ ~avif /\ loc[t].fmt = AVIF /\ loc[t].dst \in DOMAIN art)
        => (art[loc[t].dst].enc = "webp" /\ loc[t].mime = "image/webp")

\* What does hold: the artifact of such a call is encoded as WebP, and the
\* call that generates it reports image/webp.
C11_GeneratingCallFallsBack ==
    \A t \in DOMAIN dpc :
        (dpc[t] = "ret" /\ ~avif /\ loc[t].fmt = AVIF /\ loc[t].dst \in DOMAIN art)
        => /\ art[loc[t].dst].enc = "webp"
           /\ "write" \in eff[t] => loc[t].mime = "image/webp"

\* What does hold of the handlers: the mime type of a 200 answer is that of the
\* artifact's encoding, which is WebP when the AVIF encoder is unavailable.
C11_HandlersFallBack ==
    \A t \in DOMAIN dpc :
        (dpc[t] = "done" /\ resp[t].status = 200 /\ resp[t].file \in DOMAIN art)
        => /\ resp[t].mime = EncMime(art[resp[t].file].enc)
           /\ ~avif => art[resp[t].file].enc = "webp"

\* The step of thread t is a return through the exists branch of make_*
IsHitStep(t) == dpc[t] = "mk_lookup" /\ dpc'[t] = "ret"

\* A call other than that of t is in the middle of writing the file at p
BeingWritten(t, p) ==
    \E u \in DOMAIN dpc : u # t /\ dpc[u] = "mk_saving" /\ loc[u].dst = p

\* C16: under concurrent make_thumbnail / make_display calls for one key, a
\* call that returns through the exists branch returns a file that no other
\* call is in the middle of writing.
C16_HitNotBeingWritten ==
    [][\A t \in DOMAIN dpc :
          IsHitStep(t) => ~BeingWritten(t, loc'[t].dst)]_vars

\* C17: the derivative cache heals itself.  A call on the unchanged source
\* made when no other call is writing the artifact does not return, through
\* the exists branch, an artifact that is incomplete: it recomputes it.
C17_HitIsCompleteArtifact ==
    [][\A t \in DOMAIN dpc :
          (IsHitStep(t) /\ ~BeingWritten(t, loc'[t].dst)) =>
              art[loc'[t].dst].complete]_vars

\* What does hold: an artifact that is lost is recomputed.  A call that finds
\* no file at the path goes on to open the source and write the artifact, and
\* a file that stays incomplete with no call writing it was left by a write
\* that failed.
C17_LostIsRecomputed ==
    [][\A t \in DOMAIN dpc :
          /\ (dpc[t] = "mk_lookup" /\ dpc'[t] # "mk_lookup" /\ srcs[loc[t].src].exists
                /\ loc'[t].dst \notin DOMAIN art) => dpc'[t] = "mk_open"
          /\ (IsHitStep(t) /\ ~BeingWritten(t, loc'[t].dst)
                /\ ~art[loc'[t].dst].complete) =>
                 Count(wbegun, loc'[t].dst) > Count(wdone, loc'[t].dst)]_vars

(***************************************************************************)
(*                        Claims on summarize_meta                         *)
(***************************************************************************)

\* summarize_meta has returned a summary
Summarized == sumOut # NoSummary /\ ~sumOut.raised

\* The first of State, Province-State that is not empty
FirstRegion(mt) ==
    IF Strip(mt.State) # <<>> THEN Strip(mt.State) ELSE Strip(mt.ProvinceState)

IsCode(v) == Len(v) = 2 /\ IsAlpha(v)

KnownCode(v) == \E i \in DOMAIN US_ABBR_TO_FULL : US_ABBR_TO_FULL[i][1] = Upper(v)

FullNameOfCode(v) ==
    US_ABBR_TO_FULL[CHOOSE i \in DOMAIN US_ABBR_TO_FULL : US_ABBR_TO_FULL[i][1] = Upper(v)][2]

IsFullName(v) == \E i \in DOMAIN US_ABBR_TO_FULL : Lower(US_ABBR_TO_FULL[i][2]) = Lower(v)

CanonicalName(v) ==
    US_ABBR_TO_FULL[CHOOSE i \in DOMAIN US_ABBR_TO_FULL :
                        Lower(US_ABBR_TO_FULL[i][2]) = Lower(v)][2]

\* r is v with the first letter of every word in upper case and the others in lower case
IsTitleCased(r, v) ==
    /\ Len(r) = Len(v)
    /\ \A i \in 1..Len(v) :
          /\ LowerChar(r[i]) = LowerChar(v[i])
          /\ IsLetter(v[i]) =>
                IF i = 1 \/ ~IsLetter(v[i - 1]) THEN r[i] = UpperChar(v[i])
                ELSE r[i] = LowerChar(v[i])

\* The _state the claim gives for a region value; unknown is what a two-letter
\* value that is not a code becomes
RegionRule(v, r, unknown) ==
    IF v = <<>> THEN r = <<>>
    ELSE IF IsCode(v) THEN r = (IF KnownCode(v) THEN FullNameOfCode(v) ELSE unknown)
    ELSE IF IsFullName(v) THEN r = CanonicalName(v)
    ELSE IsTitleCased(r, v)

\* C12: region normalization.  A two-letter code of the table in any letter
\* case gives the full state name; a two-letter alphabetic value that is not
\* in the table is passed through as it is; a full state name in any letter
\* case gives the canonical name; any other value is title-cased; the first
\* non-empty of State, Province-State is used, and _state is absent when both
\* are empty.
C12_RegionPassThrough ==
    Summarized =>
        RegionRule(FirstRegion(sumIn), sumOut.state, FirstRegion(sumIn))

\* C12, amended: as above, but a two-letter alphabetic value that is not in
\* the table is returned in upper case (xx gives XX).
C12_RegionNormalized ==
    Summarized =>
        RegionRule(FirstRegion(sumIn), sumOut.state, Upper(FirstRegion(sumIn)))

\* C12 witness: a lower-case two-letter value that is not a code has been
\* summarized, and so has a lower-case code.
C12_Witness ==
    /\ Summarized
    /\ \/ sumIn.State = <<"x", "x">> /\ sumOut.state = <<"X", "X">>
       \/ /\ sumIn.State = <<>> /\ sumIn.ProvinceState = <<"m", "a">>
          /\ sumOut.state = <<"M", "a", "s", "s", "a", "c", "h", "u", "s", "e", "t", "t", "s">>

\* The keywords of a Keywords value, as strings: the elements of a list, or
\* the stripped pieces of a comma-separated string
KeywordsOf(kw) ==
    IF kw.t = "list" THEN [i \in DOMAIN kw.items |-> kw.items[i].s]
    ELSE IF kw.t = "none" THEN <<>>
    ELSE LET parts == SplitComma(Strip(kw.s))
         IN  [i \in DOMAIN parts |-> Strip(parts[i])]

IsSeasonKeyword(k) == StartsWith(Lower(k), SeasonPrefix)

\* The season the claim gives: of the first keyword season:<value>, the value in
\* lower case, autumn for fall; <<>> (absent) when there is none
SeasonRule(ks) ==
    IF \E i \in DOMAIN ks : IsSeasonKeyword(ks[i])
    THEN LET i == CHOOSE k \in DOMAIN ks :
                      IsSeasonKeyword(ks[k]) /\ \A j \in 1..(k - 1) : ~IsSeasonKeyword(ks[j])
             v == SubSeq(Lower(ks[i]), Len(SeasonPrefix) + 1, Len(ks[i]))
         IN  IF v = <<"f", "a", "l", "l">> THEN <<"a", "u", "t", "u", "m", "n">> ELSE v
    ELSE <<>>

\* C13: season parsing.  For every Keywords value, a list or a comma-separated
\* string, summarize_meta does not fail, and _season is the lower-cased value
\* of the first keyword season:<value>, with fall made autumn, and is absent
\* when there is no such keyword or the value is empty.
C13_SeasonParsed ==
    sumOut # NoSummary =>
        /\ ~sumOut.raised
        /\ sumOut.season = SeasonRule(KeywordsOf(sumIn.Keywords))

\* What does hold: a summary that is returned has the season of the claim, and
\* summarize_meta fails only for a list with a number in it.
C13_SeasonParsedUnlessNumber ==
    sumOut # NoSummary =>
        /\ ~sumOut.raised => sumOut.season = SeasonRule(KeywordsOf(sumIn.Keywords))
        /\ sumOut.raised =>
              /\ sumIn.Keywords.t = "list"
              /\ \E i \in DOMAIN sumIn.Keywords.items : sumIn.Keywords.items[i].t = "num"

====
